---- MODULE Spec2Model ----
(***************************************************************************)
(* TagIt.js: trigger detection, query extraction, ranking and text splice  *)
(* over a flat buffer (input/textarea) and an editable tree                *)
(* (contentEditable), with the debounced asynchronous supplier.            *)
(*                                                                         *)
(* Strings are sequences of one-character strings; offsets are 0-based as  *)
(* in the source and converted at the sequence accesses.  "~" stands for   *)
(* the non-breaking space U+00A0.                                          *)
(***************************************************************************)
EXTENDS Integers, Sequences, FiniteSets, TLC

\* ------------------------------------------------------------------ bounds
\* longest key / query drawn for getMatchScore
MaxKeyLen == 3
\* longest candidate list drawn for sortAndFilterSuggestions
MaxList == 3

\* ----------------------------------------------------------- characters
SPACE == " "
NBSP == "~"
Letters == {"a", "x", "A"}

\* String.prototype.toLowerCase, per character
LowerChar(c) == IF c = "A" THEN "a" ELSE IF c = "B" THEN "b" ELSE c

toLowerCase(s) == [k \in 1..Len(s) |-> LowerChar(s[k])]

\* all strings over alphabet A of length at most n
StringsUpTo(A, n) == UNION {[1..k -> A] : k \in 0..n}

\* s occurs in t at 0-based index k
OccursAt(t, s, k) == /\ k >= 0
                     /\ k + Len(s) <= Len(t)
                     /\ \A j \in 1..Len(s) : t[k + j] = s[j]

Min2(a, b) == IF a <= b THEN a ELSE b
Max2(a, b) == IF a >= b THEN a ELSE b

\* String.prototype.indexOf(searchString): first index, -1 when absent
indexOf(t, s) ==
    LET hits == {k \in 0..Len(t) : OccursAt(t, s, k)}
    IN IF hits = {} THEN -1 ELSE CHOOSE k \in hits : \A m \in hits : k <= m

\* String.prototype.lastIndexOf(searchString, position): last index <= position
lastIndexOf(t, s, position) ==
    LET from == Min2(Max2(position, 0), Len(t))
        hits == {k \in 0..from : OccursAt(t, s, k)}
    IN IF hits = {} THEN -1 ELSE CHOOSE k \in hits : \A m \in hits : k >= m

\* String.prototype.substring(a, b): arguments clamped to [0, length] and
\* swapped when a > b
substring(t, a, b) ==
    LET ca == Min2(Max2(a, 0), Len(t))
        cb == Min2(Max2(b, 0), Len(t))
        lo == Min2(ca, cb)
        hi == Max2(ca, cb)
    IN SubSeq(t, lo + 1, hi)

\* String.prototype.substring(a): to the end of the string
substringFrom(t, a) == substring(t, a, Len(t))

\* String.prototype.startsWith
startsWith(t, s) == OccursAt(t, s, 0)

\* ------------------------------------------------------------- numbers
\* A match score or threshold is the rational n/d in lowest terms, d > 0.
\* The source computes in IEEE doubles; on the small operands drawn here the
\* quotient index/length and its difference from 1 order and compare exactly
\* as the rationals do.  d = 0 marks a matchScore that was never assigned.
RECURSIVE Gcd(_, _)
Gcd(a, b) == IF b = 0 THEN a ELSE Gcd(b, a % b)

Abs(x) == IF x < 0 THEN 0 - x ELSE x

Frac(n, d) ==
    LET g == Gcd(Abs(n), d)
    IN [n |-> n \div g, d |-> d \div g]

Zero == [n |-> 0, d |-> 1]
One == [n |-> 1, d |-> 1]
Undefined == [n |-> 0, d |-> 0]

NumLE(x, y) == x.n * y.d <= y.n * x.d
NumLT(x, y) == x.n * y.d < y.n * x.d
NumSub(x, y) == Frac(x.n * y.d - y.n * x.d, x.d * y.d)
MathMax(x, y) == IF NumLE(y, x) THEN x ELSE y
MathMin(x, y) == IF NumLE(x, y) THEN x ELSE y

\* ------------------------------------------------------- scoring engine
\* faulty variant: the position term is added instead of subtracted and the result
\* is returned unclamped
getMatchScore_unclamped(suggestionKey, query) ==
    LET key == toLowerCase(suggestionKey)
        q == toLowerCase(query)
    IN IF q = <<>> THEN Zero
       ELSE IF key = q THEN One
       ELSE LET index == indexOf(key, q)
            IN IF index = -1 THEN Zero
               ELSE Frac(Len(key) + index, Len(key))

\* faulty variant: the index test is off by one, so a match at index 0 counts as absent
getMatchScore_prefixAbsent(suggestionKey, query) ==
    LET key == toLowerCase(suggestionKey)
        q == toLowerCase(query)
    IN IF q = <<>> THEN Zero
       ELSE IF key = q THEN One
       ELSE LET index == indexOf(key, q)
            IN IF index <= 0 THEN Zero
               ELSE MathMax(Zero, MathMin(One, NumSub(One, Frac(index, Len(key)))))

\* faulty variant: the key and the query are compared as they are written
getMatchScore_caseSensitive(suggestionKey, query) ==
    LET key == suggestionKey
        q == query
    IN IF q = <<>> THEN Zero
       ELSE IF key = q THEN One
       ELSE LET index == indexOf(key, q)
            IN IF index = -1 THEN Zero
               ELSE MathMax(Zero, MathMin(One, NumSub(One, Frac(index, Len(key)))))

\* faulty variant: the index is divided by the length of the query
getMatchScore_byQueryLength(suggestionKey, query) ==
    LET key == toLowerCase(suggestionKey)
        q == toLowerCase(query)
    IN IF q = <<>> THEN Zero
       ELSE IF key = q THEN One
       ELSE LET index == indexOf(key, q)
            IN IF index = -1 THEN Zero
               ELSE MathMax(Zero, MathMin(One, NumSub(One, Frac(index, Len(q)))))

getMatchScore(suggestionKey, query) ==
    LET key == toLowerCase(suggestionKey)
        q == toLowerCase(query)
    IN IF q = <<>> THEN Zero
       ELSE IF key = q THEN One
       ELSE LET index == indexOf(key, q)
            IN IF index = -1 THEN Zero
               ELSE MathMax(Zero, MathMin(One, NumSub(One, Frac(index, Len(key)))))

\* ------------------------------------------------------------ candidates
\* The SuggestionItem objects that exist: an object is named by its identity,
\* its display and key never change, its matchScore is the mutable field.
Objs == {1, 2, 3, 4}

ItemKey(o) ==
    CASE o = 1 -> <<"A", "x">>
      [] o = 2 -> <<"x", "a">>
      [] o = 3 -> <<"x">>
      [] OTHER -> <<"x", "x", "a">>

\* A display may hold a space or the trigger character, or be empty.
ItemDisplay(o) ==
    CASE o = 1 -> <<"x">>
      [] o = 2 -> <<"x", " ", "x">>
      [] o = 3 -> <<"@", "x">>
      [] OTHER -> <<>>

\* The TagIt instances that may be constructed.
Instances == {1, 2}

VARIABLES
    call,             \* a direct call of an exported utility function
    matchScore,       \* matchScore[o]: the matchScore field of object o
    target,           \* target[i]: the surface instance i is attached to
    selection,        \* window.getSelection(): its range's start boundary
    savedRange,       \* this.savedRange
    suggestions,      \* this.suggestions
    middlewares,      \* this.middlewares
    keepTrigger,      \* this.keepTrigger
    triggerChar,      \* this.triggerChar
    maxSuggestions,   \* this.maxSuggestions
    minScore,         \* this.minScore
    fetchSuggestions, \* whether options.fetchSuggestions was given
    fetchTimeout,     \* this.fetchTimeout: a timer id, 0 for null
    dropdown,         \* this.dropdown: its display style and its <li> entries
    timers,           \* the timers of window.setTimeout that have not fired
    inflight,         \* inflight[i]: supplier promises of i not yet settled
    listeners,        \* listeners[i]: the event listeners i has registered
    attached,         \* attached[i]: i's dropdown is a child of document.body
    destroyed,        \* destroyed[i]: destroy() was called on i
    arrayOf,          \* arrayOf[i]: the array object this.suggestions refers to
    overtaken,        \* overtaken[i]: how many of the promises counted in
                      \* inflight[i], the oldest ones, come from a supplier
                      \* call made before one that has been fulfilled since
    event             \* the event whose handler ran last, and what it saw

options == <<keepTrigger, triggerChar, maxSuggestions, minScore, fetchSuggestions>>
wiring == <<listeners, attached, destroyed>>
vars == <<call, matchScore, target, selection, savedRange, suggestions, middlewares,
          options, wiring, arrayOf, fetchTimeout, dropdown, timers, inflight,
          overtaken, event>>
instanceVars == <<target, selection, savedRange, suggestions, middlewares,
                  options, wiring, arrayOf, fetchTimeout, dropdown, timers, inflight,
                  overtaken, event>>

Range(f) == {f[k] : k \in DOMAIN f}

\* no utility function is being called directly
\* (other: the key of the call the host makes next, if pending; earlier:
\* the key and the score of the call it made before)
NoCall == [fn |-> "none", pc |-> "idle", key |-> <<>>, query |-> <<>>,
           suggestions |-> <<>>, minScore |-> Zero,
           score |-> Undefined, result |-> <<>>,
           other |-> <<>>, pending |-> FALSE,
           earlier |-> [key |-> <<>>, score |-> Undefined]]

\* every object unscored / every object carrying a score from an earlier render
Unscored == [o \in Objs |-> Undefined]
Stale == [o \in Objs |-> Frac(1, 3)]


\* Array.prototype.sort((a, b) => b.matchScore - a.matchScore): stable, so an
\* element goes in before the first one the comparator puts strictly after it
RECURSIVE InsertBy(_, _, _, _)
InsertBy(sorted, x, ms, k) ==
    IF k > Len(sorted) THEN Append(sorted, x)
    ELSE IF NumLT(ms[sorted[k]], ms[x])
         THEN SubSeq(sorted, 1, k - 1) \o <<x>> \o SubSeq(sorted, k, Len(sorted))
         ELSE InsertBy(sorted, x, ms, k + 1)

RECURSIVE SortDescending(_, _)
SortDescending(list, ms) ==
    IF list = <<>> THEN <<>>
    ELSE InsertBy(SortDescending(SubSeq(list, 1, Len(list) - 1), ms),
                  list[Len(list)], ms, 1)

\* the same with the comparator's operands swapped (a.matchScore - b.matchScore)
RECURSIVE InsertByAscending(_, _, _, _)
InsertByAscending(sorted, x, ms, k) ==
    IF k > Len(sorted) THEN Append(sorted, x)
    ELSE IF NumLT(ms[x], ms[sorted[k]])
         THEN SubSeq(sorted, 1, k - 1) \o <<x>> \o SubSeq(sorted, k, Len(sorted))
         ELSE InsertByAscending(sorted, x, ms, k + 1)

RECURSIVE SortAscending(_, _)
SortAscending(list, ms) ==
    IF list = <<>> THEN <<>>
    ELSE InsertByAscending(SortAscending(SubSeq(list, 1, Len(list) - 1), ms),
                           list[Len(list)], ms, 1)

\* forEach(suggestion => suggestion.matchScore = getMatchScore(...)) on heap ms
AttachScores(list, query, ms) ==
    [o \in Objs |-> IF o \in Range(list) THEN getMatchScore(ItemKey(o), query)
                    ELSE ms[o]]

\* faulty variant: the comparator sorts ascending
sortAndFilterSuggestions_ascending(list, query, min, ms) ==
    IF query = <<>> THEN [result |-> list, matchScore |-> ms]
    ELSE LET scored == AttachScores(list, query, ms)
             filtered == SelectSeq(list, LAMBDA o : NumLE(min, scored[o]))
         IN [result |-> SortAscending(filtered, scored), matchScore |-> scored]

\* faulty variant: the empty-query short circuit is missing
sortAndFilterSuggestions_noShortCircuit(list, query, min, ms) ==
    LET scored == AttachScores(list, query, ms)
        filtered == SelectSeq(list, LAMBDA o : NumLE(min, scored[o]))
    IN [result |-> SortDescending(filtered, scored), matchScore |-> scored]

\* sortAndFilterSuggestions(suggestions, query, minScore) on heap ms: the
\* returned array and the heap after the call
sortAndFilterSuggestions(list, query, min, ms) ==
    IF query = <<>> THEN [result |-> list, matchScore |-> ms]
    ELSE LET scored == AttachScores(list, query, ms)
             filtered == SelectSeq(list, LAMBDA o : NumLE(min, scored[o]))
         IN [result |-> SortDescending(filtered, scored), matchScore |-> scored]

\* ------------------------------------------------------ surfaces and DOM
\* A surface is an input/textarea (value, selectionStart, selectionEnd) or a
\* contentEditable element whose children are text nodes (childNodes[k] is
\* the data of the k-th child).  kind "none": no instance was constructed.
NoTarget == [kind |-> "none", value |-> <<>>, selectionStart |-> 0,
             selectionEnd |-> 0, childNodes |-> <<>>]

InputTarget(v, s, e) == [kind |-> "input", value |-> v, selectionStart |-> s,
                         selectionEnd |-> e, childNodes |-> <<>>]

EditableTarget(nodes) == [kind |-> "editable", value |-> <<>>, selectionStart |-> 0,
                          selectionEnd |-> 0, childNodes |-> nodes]

\* A boundary point: element el (the editable surface of instance el), node 0
\* for the element itself (offset counts children) or k for its k-th child
\* (offset counts characters).
Boundary(el, node, offset) == [el |-> el, node |-> node, offset |-> offset]

\* this.savedRange = null
NullRange == Boundary(0, 0, 0)

\* window.getSelection() with rangeCount = 0
NoSelection == [rangeCount |-> 0, range |-> NullRange]

Selected(b) == [rangeCount |-> 1, range |-> b]

\* node.nodeType === Node.TEXT_NODE
isTextNode(b) == b.node >= 1

\* node.textContent of a text node, in surfaces tg
textContent(tg, b) == tg[b.el].childNodes[b.node]

TagIts == {i \in Instances : target[i].kind # "none"}

\* TagIt.isInputTarget
isInputTarget(i) == target[i].kind = "input"

\* ------------------------------------------------------------ listeners
\* A listener: the event type and the function object registered for it.
\* Function.prototype.bind returns a new function object at every call: the
\* two of attachEvents are 1 and 2, the two of destroy are 3 and 4.
Listener(type, fn) == [type |-> type, fn |-> fn]

\* EventTarget.addEventListener
addEventListener(ls, type, fn) == ls \cup {Listener(type, fn)}

\* faulty variant: every listener of the type is removed
removeEventListener_byType(ls, type, fn) == {l \in ls : l.type # type}

\* EventTarget.removeEventListener: the listener with this type and this
\* function object is removed, if there is one
removeEventListener(ls, type, fn) == ls \ {Listener(type, fn)}

\* TagIt.attachEvents: the listeners it leaves registered
attachEvents == addEventListener(addEventListener({}, "keyup", 1), "click", 2)

\* an event of the type reaches a handler of instance i
Listens(i, type) == \E l \in listeners[i] : l.type = type

\* ---------------------------------------------------- text-model adapter
\* The readers take the surfaces tg and the selection sel they read, since a
\* handler reads them again after it has changed them.
\* TagIt.getTextBeforeCaretForInput
getTextBeforeCaretForInput(i, tg) ==
    substring(tg[i].value, 0, tg[i].selectionStart)

\* faulty variant: with the caret in the element, the text of the child in
\* front of the caret is read
getTextBeforeCaretForEditable_childText(i, tg, sel) ==
    IF sel.rangeCount > 0 /\ isTextNode(sel.range)
    THEN substring(textContent(tg, sel.range), 0, sel.range.offset)
    ELSE IF sel.rangeCount > 0 /\ sel.range.el \in Instances /\ sel.range.offset >= 1
    THEN tg[sel.range.el].childNodes[sel.range.offset]
    ELSE <<>>

\* TagIt.getTextBeforeCaretForEditable
getTextBeforeCaretForEditable(i, tg, sel) ==
    IF sel.rangeCount > 0 /\ isTextNode(sel.range)
    THEN substring(textContent(tg, sel.range), 0, sel.range.offset)
    ELSE <<>>

\* TagIt.getQueryForInput
getQueryForInput(i, tg) ==
    LET start == tg[i].selectionStart
        value == tg[i].value
        triggerIndex == lastIndexOf(value, triggerChar[i], start)
    IN IF triggerIndex = -1 THEN <<>>
       ELSE substring(value, triggerIndex + 1, start)

\* TagIt.getQueryForEditable
getQueryForEditable(i, tg, sel) ==
    IF sel.rangeCount > 0 /\ isTextNode(sel.range)
    THEN LET text == textContent(tg, sel.range)
             startOffset == sel.range.offset
             triggerIndex == lastIndexOf(text, triggerChar[i], startOffset)
         IN IF triggerIndex = -1 THEN <<>>
            ELSE substring(text, triggerIndex + 1, startOffset)
    ELSE <<>>

\* TagIt.getTriggerQuery
getTriggerQuery(i, tg, sel) ==
    IF isInputTarget(i) THEN getQueryForInput(i, tg) ELSE getQueryForEditable(i, tg, sel)

\* String.prototype.replace(/\u00A0/g, " ")
replaceNbsp(t) == [k \in 1..Len(t) |-> IF t[k] = NBSP THEN SPACE ELSE t[k]]

\* String.prototype.split(" "): the pieces between the spaces, never empty
RECURSIVE split(_)
split(t) ==
    LET at == indexOf(t, <<SPACE>>)
    IN IF at = -1 THEN <<t>>
       ELSE <<SubSeq(t, 1, at)>> \o split(SubSeq(t, at + 2, Len(t)))

\* faulty variant: the non-breaking spaces are not normalised
isTriggerActive_noNormalise(i, tg, sel) ==
    LET textBeforeCaret == IF isInputTarget(i) THEN getTextBeforeCaretForInput(i, tg)
                           ELSE getTextBeforeCaretForEditable(i, tg, sel)
        parts == split(textBeforeCaret)
        lastPart == parts[Len(parts)]
    IN /\ startsWith(lastPart, triggerChar[i])
       /\ indexOf(getTriggerQuery(i, tg, sel), <<SPACE>>) = -1

\* faulty variant: while the dropdown is shown the trigger stays active
isTriggerActive_whileShown(i, tg, sel) ==
    LET textBeforeCaret == IF isInputTarget(i) THEN getTextBeforeCaretForInput(i, tg)
                           ELSE getTextBeforeCaretForEditable(i, tg, sel)
        parts == split(replaceNbsp(textBeforeCaret))
        lastPart == parts[Len(parts)]
    IN \/ dropdown[i].display = "block"
       \/ /\ startsWith(lastPart, triggerChar[i])
          /\ indexOf(getTriggerQuery(i, tg, sel), <<SPACE>>) = -1

\* TagIt.isTriggerActive
isTriggerActive(i, tg, sel) ==
    LET textBeforeCaret == IF isInputTarget(i) THEN getTextBeforeCaretForInput(i, tg)
                           ELSE getTextBeforeCaretForEditable(i, tg, sel)
        parts == split(replaceNbsp(textBeforeCaret))
        lastPart == parts[Len(parts)]
    IN /\ startsWith(lastPart, triggerChar[i])
       /\ indexOf(getTriggerQuery(i, tg, sel), <<SPACE>>) = -1

\* ---------------------------------------------------- suggestion pipeline
\* The middleware functions that get registered: "reverse" returns a reversed
\* copy of the array it is given, "dropFirst" shifts the array it is given
\* and returns that array, "throws" throws.
Middlewares == {"reverse", "dropFirst", "throws"}

\* the middleware changes the array it is given
InPlace(m) == m = "dropFirst"

Reverse(list) == [k \in 1..Len(list) |-> list[Len(list) + 1 - k]]

\* one stage of the loop in showDropdown: the try/catch keeps the list a
\* throwing middleware was given
ApplyMiddleware(m, list) ==
    CASE m = "reverse" -> Reverse(list)
      [] m = "dropFirst" -> SubSeq(list, 2, Len(list))
      [] OTHER -> list

\* faulty variant: the try/catch is around the loop, a throw ends the loop
RECURSIVE ApplyMiddlewares_abortOnThrow(_, _)
ApplyMiddlewares_abortOnThrow(ms, list) ==
    IF ms = <<>> \/ Head(ms) = "throws" THEN list
    ELSE ApplyMiddlewares_abortOnThrow(Tail(ms), ApplyMiddleware(Head(ms), list))

\* faulty variant: the middlewares are applied last to first
RECURSIVE ApplyMiddlewares_lastFirst(_, _)
ApplyMiddlewares_lastFirst(ms, list) ==
    IF ms = <<>> THEN list
    ELSE ApplyMiddleware(Head(ms), ApplyMiddlewares_lastFirst(Tail(ms), list))

RECURSIVE ApplyMiddlewares(_, _)
ApplyMiddlewares(ms, list) ==
    IF ms = <<>> THEN list
    ELSE ApplyMiddlewares(Tail(ms), ApplyMiddleware(Head(ms), list))

\* The elements of the array the loop started with, once the middlewares ms
\* have run: list is the array handed to the next middleware, same tells
\* whether it still is the array the loop started with, first holds that
\* array's elements.
RECURSIVE ArrayAfter(_, _, _, _)
ArrayAfter(ms, list, same, first) ==
    IF ms = <<>> THEN first
    ELSE LET m == Head(ms)
             out == ApplyMiddleware(m, list)
         IN IF m = "throws" THEN ArrayAfter(Tail(ms), list, same, first)
            ELSE IF InPlace(m)
                 THEN ArrayAfter(Tail(ms), out, same, IF same THEN out ELSE first)
            ELSE ArrayAfter(Tail(ms), out, FALSE, first)

\* faulty variant: the loop starts with this.suggestions itself
spread_sameArray(list) == [list |-> list, own |-> TRUE]

\* [...this.suggestions]: a new array (own = FALSE) of the same elements
spread(list) == [list |-> list, own |-> FALSE]

\* faulty variant: the last entries are kept instead of the first
slice0_last(list, end) ==
    LET e == IF end < 0 THEN Max2(Len(list) + end, 0) ELSE Min2(end, Len(list))
    IN SubSeq(list, Len(list) - e + 1, Len(list))

\* Array.prototype.slice(0, end)
slice0(list, end) ==
    LET e == IF end < 0 THEN Max2(Len(list) + end, 0) ELSE Min2(end, Len(list))
    IN SubSeq(list, 1, e)

\* TagIt.hideDropdown
hideDropdown(d) == [d EXCEPT !.display = "none"]

\* faulty variant: an empty list is rendered like any other
showDropdown_rendersEmpty(i, sugg, ms, tg, sel) ==
    LET copy == spread(sugg)
        afterMiddlewares == ApplyMiddlewares(middlewares[i], copy.list)
        query == toLowerCase(getTriggerQuery(i, tg, sel))
        ranked == sortAndFilterSuggestions(afterMiddlewares, query, minScore[i], ms)
        suggestionsToShow == slice0(ranked.result, maxSuggestions[i])
    IN [dropdown |-> [display |-> "block", items |-> suggestionsToShow],
        matchScore |-> ranked.matchScore,
        suggestions |-> sugg]

\* faulty variant: the list is ranked without reading the query again
showDropdown_noQuery(i, sugg, ms, tg, sel) ==
    LET copy == spread(sugg)
        afterMiddlewares == ApplyMiddlewares(middlewares[i], copy.list)
        ranked == sortAndFilterSuggestions(afterMiddlewares, <<>>, minScore[i], ms)
        suggestionsToShow == slice0(ranked.result, maxSuggestions[i])
    IN [dropdown |-> IF suggestionsToShow = <<>> THEN hideDropdown(dropdown[i])
                     ELSE [display |-> "block", items |-> suggestionsToShow],
        matchScore |-> ranked.matchScore,
        suggestions |-> sugg]

\* TagIt.showDropdown for instance i with candidate set sugg on heap ms,
\* reading surfaces tg and selection sel: the dropdown, the heap and the
\* elements of this.suggestions after the render
showDropdown(i, sugg, ms, tg, sel) ==
    LET copy == spread(sugg)
        afterMiddlewares == ApplyMiddlewares(middlewares[i], copy.list)
        query == toLowerCase(getTriggerQuery(i, tg, sel))
        ranked == sortAndFilterSuggestions(afterMiddlewares, query, minScore[i], ms)
        suggestionsToShow == slice0(ranked.result, maxSuggestions[i])
    IN [dropdown |-> IF suggestionsToShow = <<>> THEN hideDropdown(dropdown[i])
                     ELSE [display |-> "block", items |-> suggestionsToShow],
        matchScore |-> ranked.matchScore,
        suggestions |-> IF copy.own
                        THEN ArrayAfter(middlewares[i], copy.list, TRUE, copy.list)
                        ELSE sugg]

\* ------------------------------------------------------------- splice
\* faulty variant: the new caret offset leaves out the trailing space
insertTagForTextarea_caretBeforeSpace(i, tag, tg) ==
    LET start == tg[i].selectionStart
        end == tg[i].selectionEnd
        value == tg[i].value
        triggerIndex == lastIndexOf(value, triggerChar[i], start)
        beforeTrigger == substring(value, 0, triggerIndex)
        afterCaret == substringFrom(value, end)
        triggerPart == IF keepTrigger[i] THEN triggerChar[i] ELSE <<>>
        newValue == beforeTrigger \o triggerPart \o tag \o <<SPACE>> \o afterCaret
        newPos == Len(beforeTrigger) + Len(triggerPart) + Len(tag)
    IN IF triggerIndex = -1 THEN tg[i]
       ELSE [tg[i] EXCEPT !.value = newValue,
                          !.selectionStart = Min2(newPos, Len(newValue)),
                          !.selectionEnd = Min2(newPos, Len(newValue))]

\* faulty variant: no early return when the trigger is not found
insertTagForTextarea_noReturn(i, tag, tg) ==
    LET start == tg[i].selectionStart
        end == tg[i].selectionEnd
        value == tg[i].value
        triggerIndex == lastIndexOf(value, triggerChar[i], start)
        beforeTrigger == substring(value, 0, triggerIndex)
        afterCaret == substringFrom(value, end)
        triggerPart == IF keepTrigger[i] THEN triggerChar[i] ELSE <<>>
        newValue == beforeTrigger \o triggerPart \o tag \o <<SPACE>> \o afterCaret
        newPos == Len(beforeTrigger) + Len(triggerPart) + Len(tag) + 1
    IN [tg[i] EXCEPT !.value = newValue,
                     !.selectionStart = Min2(newPos, Len(newValue)),
                     !.selectionEnd = Min2(newPos, Len(newValue))]

\* TagIt.insertTagForTextarea: the surface of i after the call
insertTagForTextarea(i, tag, tg) ==
    LET start == tg[i].selectionStart
        end == tg[i].selectionEnd
        value == tg[i].value
        triggerIndex == lastIndexOf(value, triggerChar[i], start)
        beforeTrigger == substring(value, 0, triggerIndex)
        afterCaret == substringFrom(value, end)
        triggerPart == IF keepTrigger[i] THEN triggerChar[i] ELSE <<>>
        newValue == beforeTrigger \o triggerPart \o tag \o <<SPACE>> \o afterCaret
        newPos == Len(beforeTrigger) + Len(triggerPart) + Len(tag) + 1
    IN IF triggerIndex = -1 THEN tg[i]
       ELSE [tg[i] EXCEPT !.value = newValue,
                          \* setSelectionRange clamps to the value's length
                          !.selectionStart = Min2(newPos, Len(newValue)),
                          !.selectionEnd = Min2(newPos, Len(newValue))]

\* The documents a handler leaves: the surfaces, the selection and the
\* Range objects the instances hold (this.savedRange), which the DOM keeps
\* up to date when nodes are inserted and removed.
Doc(tg, sel, sr) == [target |-> tg, selection |-> sel, savedRange |-> sr]

\* a live range's start after child k of element el was replaced by three
\* nodes (three insertBefore, then removeChild of the node)
AfterReplaceByThree(b, el, k) ==
    IF b = NullRange \/ b.el # el THEN b
    ELSE IF b.node = k THEN Boundary(el, 0, k + 2)
    ELSE IF b.node > k THEN [b EXCEPT !.node = @ + 2]
    ELSE IF b.node = 0 /\ b.offset > k - 1 THEN [b EXCEPT !.offset = @ + 2]
    ELSE b

\* faulty variant: the text node is replaced by one node that holds the
\* three texts, and the caret is put after it
insertTagForContentEditable_oneNode(i, tag, tg, sel, sr) ==
    LET restored == IF sr[i] # NullRange THEN Selected(sr[i]) ELSE sel
        node == restored.range
    IN IF restored.rangeCount = 0 THEN Doc(tg, restored, sr)
       ELSE IF ~isTextNode(node) THEN Doc(tg, restored, sr)
       ELSE LET text == textContent(tg, node)
                triggerIndex == lastIndexOf(text, triggerChar[i], node.offset)
                before == substring(text, 0, triggerIndex)
                after == substringFrom(text, node.offset)
                triggerPart == IF keepTrigger[i] THEN triggerChar[i] ELSE <<>>
                insertText == triggerPart \o tag \o <<SPACE>>
            IN IF triggerIndex = -1 THEN Doc(tg, restored, sr)
               ELSE Doc([tg EXCEPT ![node.el].childNodes[node.node] =
                             before \o insertText \o after],
                        Selected(Boundary(node.el, 0, node.node)),
                        [j \in Instances |->
                            IF sr[j] # NullRange /\ sr[j].el = node.el
                                                 /\ sr[j].node = node.node
                            THEN Boundary(node.el, 0, node.node) ELSE sr[j]])

\* TagIt.insertTagForContentEditable
insertTagForContentEditable(i, tag, tg, sel, sr) ==
    LET restored == IF sr[i] # NullRange THEN Selected(sr[i]) ELSE sel
        node == restored.range
    IN IF restored.rangeCount = 0 THEN Doc(tg, restored, sr)
       ELSE IF ~isTextNode(node) THEN Doc(tg, restored, sr)
       ELSE LET text == textContent(tg, node)
                triggerIndex == lastIndexOf(text, triggerChar[i], node.offset)
                before == substring(text, 0, triggerIndex)
                after == substringFrom(text, node.offset)
                triggerPart == IF keepTrigger[i] THEN triggerChar[i] ELSE <<>>
                insertText == triggerPart \o tag \o <<SPACE>>
                children == tg[node.el].childNodes
                k == node.node
            IN IF triggerIndex = -1 THEN Doc(tg, restored, sr)
               ELSE Doc([tg EXCEPT ![node.el].childNodes =
                             SubSeq(children, 1, k - 1) \o <<before, insertText, after>>
                                \o SubSeq(children, k + 1, Len(children))],
                        \* newRange.setStartAfter(tagNode); collapse(true)
                        Selected(Boundary(node.el, 0, k + 1)),
                        [j \in Instances |-> AfterReplaceByThree(sr[j], node.el, k)])

\* TagIt.insertTag
insertTag(i, tag, tg, sel, sr) ==
    IF isInputTarget(i)
    THEN Doc([tg EXCEPT ![i] = insertTagForTextarea(i, tag, tg)], sel, sr)
    ELSE insertTagForContentEditable(i, tag, tg, sel, sr)

\* ------------------------------------------------------- caret geometry
\* a live range's start after text node k of element el was split at offset
\* o (Range.insertNode of the marker) and the marker was removed again
AfterSplit(b, el, k, o) ==
    IF b = NullRange \/ b.el # el THEN b
    ELSE IF b.node = k /\ b.offset > o THEN Boundary(el, k + 1, b.offset - o)
    ELSE IF b.node > k THEN [b EXCEPT !.node = @ + 1]
    ELSE IF b.node = 0 /\ b.offset >= k THEN [b EXCEPT !.offset = @ + 1]
    ELSE b

\* getCaretCoordinatesEditable: the coordinates are not modelled, the marker
\* it inserts at the caret leaves the caret's text node split in two
getCaretCoordinatesEditable(tg, sel, sr) ==
    IF sel.rangeCount > 0 /\ isTextNode(sel.range)
    THEN LET el == sel.range.el
             k == sel.range.node
             o == sel.range.offset
             children == tg[el].childNodes
             text == children[k]
         IN Doc([tg EXCEPT ![el].childNodes =
                     SubSeq(children, 1, k - 1)
                        \o <<SubSeq(text, 1, o), SubSeq(text, o + 1, Len(text))>>
                        \o SubSeq(children, k + 1, Len(children))],
                sel,
                [j \in Instances |-> AfterSplit(sr[j], el, k, o)])
    ELSE Doc(tg, sel, sr)

\* getCaretCoordinates: what the measurement leaves behind in the document
getCaretCoordinates(i, tg, sel, sr) ==
    IF isInputTarget(i) THEN Doc(tg, sel, sr)
    ELSE getCaretCoordinatesEditable(tg, sel, sr)

\* --------------------------------------------------------------- timers
\* most timers pending at once (window.setTimeout itself has no limit)
MaxTimers == 2
\* most supplier promises of one instance pending at once
MaxInflight == 2

TimerIds == 1..(MaxTimers + Cardinality(Instances) + 1)

\* window.setTimeout returns a fresh id: none of a pending timer, none that
\* another instance still holds (the caller overwrites its own handle)
NewTimerId(ts, ft, i) ==
    LET used == {t.id : t \in ts} \cup {ft[j] : j \in Instances \ {i}}
    IN CHOOSE id \in TimerIds \ used : \A other \in TimerIds \ used : id <= other

\* window.clearTimeout
clearTimeout(ts, id) == {t \in ts : t.id # id}

\* A timer remembers whether a later keystroke of its instance has been
\* handled since it was scheduled (latest = FALSE).
Superseded(ts, i) ==
    {IF t.inst = i THEN [t EXCEPT !.latest = FALSE] ELSE t : t \in ts}

Sched(ts, ft) == [timers |-> ts, fetchTimeout |-> ft]

\* faulty variant: the pending timer is not cleared before the new one is set
ScheduleFetch_noClear(i, ts, ft) ==
    LET id == NewTimerId(ts, ft, i)
    IN Sched(ts \cup {[id |-> id, inst |-> i, latest |-> TRUE]},
             [ft EXCEPT ![i] = id])

\* onKeyUp, trigger active, supplier configured: clearTimeout, setTimeout
ScheduleFetch(i, ts, ft) ==
    LET cleared == IF ft[i] # 0 THEN clearTimeout(ts, ft[i]) ELSE ts
        id == NewTimerId(cleared, ft, i)
    IN Sched(cleared \cup {[id |-> id, inst |-> i, latest |-> TRUE]},
             [ft EXCEPT ![i] = id])

\* faulty variant: the handle is forgotten but the timer is left running
CancelFetch_forgetOnly(i, ts, ft) ==
    Sched(ts, [ft EXCEPT ![i] = 0])

\* onKeyUp, trigger inactive: clearTimeout and this.fetchTimeout = null
CancelFetch(i, ts, ft) ==
    IF ft[i] # 0 THEN Sched(clearTimeout(ts, ft[i]), [ft EXCEPT ![i] = 0])
    ELSE Sched(ts, ft)

TimersOf(i) == {t \in timers : t.inst = i}

\* ----------------------------------------------------------- exceptions
\* faulty variant: the catch block throws the exception again
tryCatch_rethrows(raised) == raised

\* try { ... } catch (err) { this.error(...) }: of the exceptions thrown in
\* the block, the ones that leave the statement
tryCatch(raised) == {}

\* the exceptions that leave showDropdown of instance i: each middleware is
\* called inside the try/catch of the loop body
showDropdownThrows(i) ==
    UNION {tryCatch(IF middlewares[i][k] = "throws" THEN {"middleware"} ELSE {}) :
              k \in 1..Len(middlewares[i])}

\* the trigger character does not occur at or before the caret in the text
\* the query and the splice search: the value, or the caret's text node
NoTrigger(i, tg, sel) ==
    IF isInputTarget(i)
    THEN lastIndexOf(tg[i].value, triggerChar[i], tg[i].selectionStart) = -1
    ELSE /\ sel.rangeCount > 0
         /\ isTextNode(sel.range)
         /\ lastIndexOf(textContent(tg, sel.range), triggerChar[i], sel.range.offset) = -1

\* the caret of an editable surface is in a node that is not a text node
NoTextNode(i, sel) == ~isInputTarget(i) /\ sel.rangeCount > 0 /\ ~isTextNode(sel.range)

\* the failures a handler of instance i meets when it reads tg and sel
Failures(i, tg, sel) ==
    (IF NoTrigger(i, tg, sel) THEN {"trigger"} ELSE {})
       \cup (IF NoTextNode(i, sel) THEN {"container"} ELSE {})

\* a middleware of instance i throws
MiddlewareFails(i) ==
    IF \E k \in 1..Len(middlewares[i]) : middlewares[i][k] = "throws"
    THEN {"middleware"} ELSE {}

\* ------------------------------------------------------ array objects
\* the array objects the instances' this.suggestions may refer to
ArrayIds == 1..Cardinality(Instances)

\* a new array object: one no other instance refers to
NewArray(ao, i) ==
    LET free == ArrayIds \ {ao[j] : j \in Instances \ {i}}
    IN CHOOSE a \in free : \A other \in free : a <= other

\* Array.prototype.push on the array instance i refers to: every instance
\* that refers to the same array object sees the new entry
Pushed(i, o) ==
    [j \in Instances |-> IF arrayOf[j] = arrayOf[i] THEN Append(suggestions[j], o)
                          ELSE suggestions[j]]

\* -------------------------------------------------------------- events
\* The event handled last: its type, the instance, and what the handler saw
\* (keyup: the value of isTriggerActive, and whether a timer of the instance
\* was pending when the handler began; timer: whether the timer was the one
\* of the latest keystroke; click: the text handed to insertTag; resolve:
\* the supplier's result, the candidate set it met, and whether a promise
\* of a later supplier call had been fulfilled before; addSuggestion: the
\* candidate given; removeSuggestion: the key given and the candidate set
\* it met; every handler: the failures it met and the exceptions that left
\* it; a render: the query showDropdown extracted; a click outside:
\* the instances whose dropdown it found shown; a fulfilled call: whether
\* the step before it was an edit of the text, no keystroke handled since).
NoEvent == [type |-> "none", inst |-> 0, active |-> FALSE, pending |-> FALSE,
            latest |-> FALSE, tag |-> <<>>, result |-> <<>>, old |-> <<>>,
            item |-> 0, key |-> <<>>, stale |-> FALSE,
            failure |-> {}, escaped |-> {}, query |-> <<>>, shown |-> {},
            edited |-> FALSE]

Event(type, i) == [NoEvent EXCEPT !.type = type, !.inst = i]

\* most child nodes of an editable surface
MaxNodes == 4
\* longest text a splice may leave in one text node or value
MaxSpliceLen == 7

\* faulty variant: with a supplier configured the handler schedules the
\* fetch and renders the existing candidate set at once
KeyUp_rendersAtOnce(i) ==
    /\ i \in TagIts
    /\ Listens(i, "keyup")
    \* the key goes to the focused element: the caret of an editable target
    \* is inside it
    /\ isInputTarget(i) \/ selection.rangeCount = 0 \/ selection.range.el = i
    /\ LET saved == IF selection.rangeCount > 0
                    THEN [savedRange EXCEPT ![i] = selection.range]
                    ELSE savedRange
           active == isTriggerActive(i, target, selection)
           older == Superseded(timers, i)
           renders == active /\ ~fetchSuggestions[i]
       IN /\ event' = [Event("keyup", i) EXCEPT
                          !.active = active,
                          !.pending = TimersOf(i) # {},
                          !.failure = Failures(i, target, selection) \cup
                                         (IF renders THEN MiddlewareFails(i) ELSE {}),
                          !.escaped = tryCatch(IF renders THEN showDropdownThrows(i)
                                               ELSE {}),
                          !.query =
                             IF renders
                             THEN LET doc == getCaretCoordinates(i, target, selection,
                                                                 saved)
                                  IN getTriggerQuery(i, doc.target, doc.selection)
                             ELSE <<>>]
          /\ IF active
             THEN LET doc == getCaretCoordinates(i, target, selection, saved)
                  IN /\ Len(doc.target[i].childNodes) <= MaxNodes
                     /\ target' = doc.target
                     /\ selection' = doc.selection
                     /\ savedRange' = doc.savedRange
                     /\ IF fetchSuggestions[i]
                        THEN LET s == ScheduleFetch(i, older, fetchTimeout)
                             IN /\ Cardinality(s.timers) <= MaxTimers
                                /\ timers' = s.timers
                                /\ fetchTimeout' = s.fetchTimeout
                                /\ dropdown' = [dropdown EXCEPT ![i] =
                                      showDropdown(i, suggestions[i], matchScore,
                                                   doc.target, doc.selection).dropdown]
                                /\ UNCHANGED <<matchScore, suggestions>>
                        ELSE LET shown == showDropdown(i, suggestions[i], matchScore,
                                                       doc.target, doc.selection)
                             IN /\ dropdown' = [dropdown EXCEPT ![i] = shown.dropdown]
                                /\ matchScore' = shown.matchScore
                                /\ suggestions' = [suggestions EXCEPT ![i] =
                                                      shown.suggestions]
                                /\ timers' = older
                                /\ UNCHANGED fetchTimeout
             ELSE LET s == CancelFetch(i, older, fetchTimeout)
                  IN /\ timers' = s.timers
                     /\ fetchTimeout' = s.fetchTimeout
                     /\ dropdown' = [dropdown EXCEPT ![i] = hideDropdown(dropdown[i])]
                     /\ savedRange' = saved
                     /\ UNCHANGED <<target, selection, matchScore, suggestions>>
    /\ UNCHANGED <<call, middlewares, options, wiring, arrayOf, inflight, overtaken>>

\* TagIt.onKeyUp
KeyUp(i) ==
    /\ i \in TagIts
    /\ Listens(i, "keyup")
    \* the key goes to the focused element: the caret of an editable target
    \* is inside it
    /\ isInputTarget(i) \/ selection.rangeCount = 0 \/ selection.range.el = i
    /\ LET saved == IF selection.rangeCount > 0
                    THEN [savedRange EXCEPT ![i] = selection.range]
                    ELSE savedRange
           active == isTriggerActive(i, target, selection)
           older == Superseded(timers, i)
           renders == active /\ ~fetchSuggestions[i]
       IN /\ event' = [Event("keyup", i) EXCEPT
                          !.active = active,
                          !.pending = TimersOf(i) # {},
                          !.failure = Failures(i, target, selection) \cup
                                         (IF renders THEN MiddlewareFails(i) ELSE {}),
                          !.escaped = tryCatch(IF renders THEN showDropdownThrows(i)
                                               ELSE {}),
                          !.query =
                             IF renders
                             THEN LET doc == getCaretCoordinates(i, target, selection,
                                                                 saved)
                                  IN getTriggerQuery(i, doc.target, doc.selection)
                             ELSE <<>>]
          /\ IF active
             THEN LET doc == getCaretCoordinates(i, target, selection, saved)
                  IN /\ Len(doc.target[i].childNodes) <= MaxNodes
                     /\ target' = doc.target
                     /\ selection' = doc.selection
                     /\ savedRange' = doc.savedRange
                     /\ IF fetchSuggestions[i]
                        THEN LET s == ScheduleFetch(i, older, fetchTimeout)
                             IN /\ Cardinality(s.timers) <= MaxTimers
                                /\ timers' = s.timers
                                /\ fetchTimeout' = s.fetchTimeout
                                /\ UNCHANGED <<dropdown, matchScore, suggestions>>
                        ELSE LET shown == showDropdown(i, suggestions[i], matchScore,
                                                       doc.target, doc.selection)
                             IN /\ dropdown' = [dropdown EXCEPT ![i] = shown.dropdown]
                                /\ matchScore' = shown.matchScore
                                /\ suggestions' = [suggestions EXCEPT ![i] =
                                                      shown.suggestions]
                                /\ timers' = older
                                /\ UNCHANGED fetchTimeout
             ELSE LET s == CancelFetch(i, older, fetchTimeout)
                  IN /\ timers' = s.timers
                     /\ fetchTimeout' = s.fetchTimeout
                     /\ dropdown' = [dropdown EXCEPT ![i] = hideDropdown(dropdown[i])]
                     /\ savedRange' = saved
                     /\ UNCHANGED <<target, selection, matchScore, suggestions>>
    /\ UNCHANGED <<call, middlewares, options, wiring, arrayOf, inflight, overtaken>>

\* faulty variant: the callback returns without invoking the supplier
TimerFire_noCall(t) ==
    /\ t \in timers
    /\ timers' = timers \ {t}
    /\ event' = [Event("timer", t.inst) EXCEPT !.latest = t.latest]
    /\ UNCHANGED <<call, matchScore, target, selection, savedRange, suggestions,
                   middlewares, options, wiring, arrayOf, fetchTimeout, dropdown,
                   inflight, overtaken>>

\* the callback given to window.setTimeout, up to the await: the supplier
\* is invoked and its promise is pending
TimerFire(t) ==
    /\ t \in timers
    /\ inflight[t.inst] < MaxInflight
    /\ timers' = timers \ {t}
    /\ inflight' = [inflight EXCEPT ![t.inst] = @ + 1]
    /\ event' = [Event("timer", t.inst) EXCEPT !.latest = t.latest]
    /\ UNCHANGED <<call, matchScore, target, selection, savedRange, suggestions,
                   middlewares, options, wiring, arrayOf, fetchTimeout, dropdown,
                   overtaken>>

\* faulty variant: the result is appended to the candidate set
Replaced_merged(old, result) == old \o result

\* this.suggestions = asyncSuggestions
Replaced(old, result) == result

\* The promises of instance i that are pending, in the order of the supplier
\* calls that made them, are numbered 1..inflight[i]; the first overtaken[i]
\* of them were made before a call whose promise has been fulfilled since.
\* overtaken[i] after the k-th of them was fulfilled / was rejected
AfterFulfilled(n, k) == Max2(n, k) - 1
AfterRejected(n, k) == IF k <= n THEN n - 1 ELSE n

\* faulty variant: the result of a call made before one that has been
\* fulfilled already is dropped
ResolveFetch_dropsStale(i, result) ==
    /\ i \in TagIts
    /\ inflight[i] > 0
    /\ inflight' = [inflight EXCEPT ![i] = @ - 1]
    /\ \E k \in 1..inflight[i] :
         /\ overtaken' = [overtaken EXCEPT ![i] = AfterFulfilled(@, k)]
         /\ event' = [Event("resolve", i) EXCEPT
                         !.result = result,
                         !.old = suggestions[i],
                         !.stale = k <= overtaken[i],
                         !.failure = Failures(i, target, selection) \cup
                                        MiddlewareFails(i),
                         !.escaped = tryCatch(showDropdownThrows(i)),
                         !.query = getTriggerQuery(i, target, selection),
                         !.edited = event.type = "edit"]
         /\ IF k <= overtaken[i]
            THEN UNCHANGED <<suggestions, arrayOf, dropdown, matchScore>>
            ELSE LET sugg == Replaced(suggestions[i], result)
                     shown == showDropdown(i, sugg, matchScore, target, selection)
                 IN /\ suggestions' = [suggestions EXCEPT ![i] = shown.suggestions]
                    /\ arrayOf' = [arrayOf EXCEPT ![i] = NewArray(arrayOf, i)]
                    /\ dropdown' = [dropdown EXCEPT ![i] = shown.dropdown]
                    /\ matchScore' = shown.matchScore
    /\ UNCHANGED <<call, target, selection, savedRange, middlewares, options, wiring,
                   fetchTimeout, timers>>

\* the callback after the await, a pending promise of the supplier fulfilled
\* with result, a new array
ResolveFetch(i, result) ==
    /\ i \in TagIts
    /\ inflight[i] > 0
    /\ inflight' = [inflight EXCEPT ![i] = @ - 1]
    /\ \E k \in 1..inflight[i] :
         /\ overtaken' = [overtaken EXCEPT ![i] = AfterFulfilled(@, k)]
         /\ event' = [Event("resolve", i) EXCEPT
                         !.result = result,
                         !.old = suggestions[i],
                         !.stale = k <= overtaken[i],
                         !.failure = Failures(i, target, selection) \cup
                                        MiddlewareFails(i),
                         !.escaped = tryCatch(showDropdownThrows(i)),
                         !.query = getTriggerQuery(i, target, selection),
                         !.edited = event.type = "edit"]
    /\ LET sugg == Replaced(suggestions[i], result)
           shown == showDropdown(i, sugg, matchScore, target, selection)
       IN /\ suggestions' = [suggestions EXCEPT ![i] = shown.suggestions]
          /\ arrayOf' = [arrayOf EXCEPT ![i] = NewArray(arrayOf, i)]
          /\ dropdown' = [dropdown EXCEPT ![i] = shown.dropdown]
          /\ matchScore' = shown.matchScore
    /\ UNCHANGED <<call, target, selection, savedRange, middlewares, options, wiring,
                   fetchTimeout, timers>>

\* faulty variant: the catch also hides the dropdown
RejectFetch_hides(i) ==
    /\ i \in TagIts
    /\ inflight[i] > 0
    /\ inflight' = [inflight EXCEPT ![i] = @ - 1]
    /\ \E k \in 1..inflight[i] :
         overtaken' = [overtaken EXCEPT ![i] = AfterRejected(@, k)]
    /\ dropdown' = [dropdown EXCEPT ![i] = hideDropdown(@)]
    /\ event' = [Event("reject", i) EXCEPT !.failure = {"supplier"},
                                           !.escaped = tryCatch({"supplier"})]
    /\ UNCHANGED <<call, matchScore, target, selection, savedRange, suggestions,
                   middlewares, options, wiring, arrayOf, fetchTimeout, timers>>

\* the callback after the await, a pending promise of the supplier rejected:
\* the catch logs the error
RejectFetch(i) ==
    /\ i \in TagIts
    /\ inflight[i] > 0
    /\ inflight' = [inflight EXCEPT ![i] = @ - 1]
    /\ \E k \in 1..inflight[i] :
         overtaken' = [overtaken EXCEPT ![i] = AfterRejected(@, k)]
    /\ event' = [Event("reject", i) EXCEPT !.failure = {"supplier"},
                                           !.escaped = tryCatch({"supplier"})]
    /\ UNCHANGED <<call, matchScore, target, selection, savedRange, suggestions,
                   middlewares, options, wiring, arrayOf, fetchTimeout, dropdown, timers>>

\* the text of surface i after the handlers of a click are done, for the cap
LongestText(t) ==
    IF t.kind = "input" THEN Len(t.value)
    ELSE IF t.childNodes = <<>> THEN 0
    ELSE CHOOSE n \in {Len(t.childNodes[k]) : k \in 1..Len(t.childNodes)} :
            \A k \in 1..Len(t.childNodes) : Len(t.childNodes[k]) <= n

\* faulty variant: the dropdown is hidden only when the splice changed the text
onEntryClick_hidesOnSuccess(i, tag, tg, sel, sr) ==
    LET doc == insertTag(i, tag, tg, sel, sr)
    IN [doc |-> doc,
        dropdown |-> IF doc.target # tg THEN hideDropdown(dropdown[i]) ELSE dropdown[i]]

\* the click listener of an <li> rendered for a candidate displayed as tag:
\* insertTag inside try/catch, then hideDropdown
onEntryClick(i, tag, tg, sel, sr) ==
    [doc |-> insertTag(i, tag, tg, sel, sr), dropdown |-> hideDropdown(dropdown[i])]

\* faulty variant: the listener hides nothing
onOutsideClick_ignores(j, i, d) == d

\* TagIt.onOutsideClick of instance j for a click whose target lies inside
\* the dropdown of instance i (0: inside no dropdown)
onOutsideClick(j, i, d) == IF j # i THEN hideDropdown(d) ELSE d

\* a click on the n-th <li> of i's dropdown: its click listener, then the
\* click listeners on the document (the click bubbles)
ClickEntry(i, n) ==
    /\ i \in TagIts
    /\ attached[i]
    /\ dropdown[i].display = "block"
    /\ n \in 1..Len(dropdown[i].items)
    /\ LET tag == ItemDisplay(dropdown[i].items[n])
           clicked == onEntryClick(i, tag, target, selection, savedRange)
           doc == clicked.doc
       IN /\ \A j \in TagIts : /\ Len(doc.target[j].childNodes) <= MaxNodes
                               /\ LongestText(doc.target[j]) <= MaxSpliceLen
          /\ target' = doc.target
          /\ selection' = doc.selection
          /\ savedRange' = doc.savedRange
          /\ event' = [Event("click", i) EXCEPT
                          !.tag = tag,
                          !.failure = Failures(i, target,
                                               IF savedRange[i] # NullRange
                                               THEN Selected(savedRange[i])
                                               ELSE selection),
                          \* insertTag has a try/catch of its own
                          !.escaped = tryCatch(tryCatch({}))]
          /\ dropdown' = [j \in Instances |->
                LET d == IF j = i THEN clicked.dropdown ELSE dropdown[j]
                IN IF Listens(j, "click") THEN onOutsideClick(j, i, d) ELSE d]
    /\ UNCHANGED <<call, matchScore, suggestions, middlewares, options, wiring, arrayOf,
                   fetchTimeout, timers,
                   inflight, overtaken>>

\* a click outside every dropdown: TagIt.onOutsideClick of every instance
OutsideClick ==
    /\ TagIts # {}
    /\ dropdown' = [j \in Instances |->
                       IF Listens(j, "click") THEN onOutsideClick(j, 0, dropdown[j])
                       ELSE dropdown[j]]
    /\ event' = [Event("outsideclick", 0) EXCEPT
                    !.shown = {j \in TagIts : dropdown[j].display = "block"}]
    /\ UNCHANGED <<call, matchScore, target, selection, savedRange, suggestions,
                   middlewares, options, wiring, arrayOf, fetchTimeout, timers,
                   inflight, overtaken>>

\* ---------------------------------------------------------- runtime API
\* most candidates a candidate set is grown to by addSuggestion
MaxSuggestions == 2

\* TagIt.addSuggestion
\* faulty variant: a candidate whose key is already present is not added
addSuggestion_dedupe(i, o) ==
    /\ i \in TagIts
    /\ Len(suggestions[i]) < MaxSuggestions
    /\ suggestions' = IF \E k \in 1..Len(suggestions[i]) :
                             ItemKey(suggestions[i][k]) = ItemKey(o)
                       THEN suggestions ELSE Pushed(i, o)
    /\ event' = [Event("addSuggestion", i) EXCEPT !.item = o]
    /\ UNCHANGED <<call, matchScore, target, selection, savedRange, middlewares,
                   options, wiring, arrayOf, fetchTimeout, dropdown, timers,
                   inflight, overtaken>>

addSuggestion(i, o) ==
    /\ i \in TagIts
    /\ Len(suggestions[i]) < MaxSuggestions
    /\ suggestions' = Pushed(i, o)
    /\ event' = [Event("addSuggestion", i) EXCEPT !.item = o]
    /\ UNCHANGED <<call, matchScore, target, selection, savedRange, middlewares,
                   options, wiring, arrayOf, fetchTimeout, dropdown, timers,
                   inflight, overtaken>>

\* list without its first entry whose key is key
RECURSIVE WithoutFirst(_, _)
WithoutFirst(list, key) ==
    IF list = <<>> THEN <<>>
    ELSE IF ItemKey(Head(list)) = key THEN Tail(list)
    ELSE <<Head(list)>> \o WithoutFirst(Tail(list), key)

\* faulty variant: only the first entry with the key is removed
removeSuggestion_firstOnly(i, key) ==
    /\ i \in TagIts
    /\ suggestions' = [suggestions EXCEPT ![i] = WithoutFirst(@, key)]
    /\ arrayOf' = [arrayOf EXCEPT ![i] = NewArray(arrayOf, i)]
    /\ event' = [Event("removeSuggestion", i) EXCEPT !.key = key,
                                                      !.old = suggestions[i]]
    /\ UNCHANGED <<call, matchScore, target, selection, savedRange, middlewares,
                   options, wiring, fetchTimeout, dropdown, timers,
                   inflight, overtaken>>

\* TagIt.removeSuggestion: filter returns a new array
removeSuggestion(i, key) ==
    /\ i \in TagIts
    /\ suggestions' = [suggestions EXCEPT ![i] =
                          SelectSeq(@, LAMBDA o : ItemKey(o) # key)]
    /\ arrayOf' = [arrayOf EXCEPT ![i] = NewArray(arrayOf, i)]
    /\ event' = [Event("removeSuggestion", i) EXCEPT !.key = key,
                                                      !.old = suggestions[i]]
    /\ UNCHANGED <<call, matchScore, target, selection, savedRange, middlewares,
                   options, wiring, fetchTimeout, dropdown, timers,
                   inflight, overtaken>>

\* most middlewares registered on one instance
MaxMiddlewares == 2

\* TagIt.use
use(i, m) ==
    /\ i \in TagIts
    /\ Len(middlewares[i]) < MaxMiddlewares
    /\ middlewares' = [middlewares EXCEPT ![i] = Append(@, m)]
    /\ event' = Event("use", i)
    /\ UNCHANGED <<call, matchScore, target, selection, savedRange, suggestions,
                   options, wiring, arrayOf, fetchTimeout, dropdown, timers,
                   inflight, overtaken>>

\* TagIt.destroy: removeEventListener is given the function objects of two
\* new bind calls; a second call throws in removeChild after the same
\* removals and changes nothing
destroy(i) ==
    /\ i \in TagIts
    /\ attached[i]
    /\ listeners' = [listeners EXCEPT ![i] =
                        removeEventListener(removeEventListener(@, "keyup", 3), "click", 4)]
    /\ attached' = [attached EXCEPT ![i] = FALSE]
    /\ destroyed' = [destroyed EXCEPT ![i] = TRUE]
    /\ event' = Event("destroy", i)
    /\ UNCHANGED <<call, matchScore, target, selection, savedRange, suggestions,
                   middlewares, options, arrayOf, fetchTimeout, dropdown, timers,
                   inflight, overtaken>>

\* ----------------------------------------------------- the user's edits
\* longest text the user types into a surface
MaxLen == 3

\* the characters typed: the trigger, a space, a non-breaking space, a letter
TextAlphabet == {"@", SPACE, NBSP, "x"}

RECURSIVE TotalLen(_)
TotalLen(nodes) == IF nodes = <<>> THEN 0 ELSE Len(Head(nodes)) + TotalLen(Tail(nodes))

\* the boundary points inside editable surface i
Boundaries(i) ==
    {Boundary(i, 0, x) : x \in 0..Len(target[i].childNodes)}
      \cup UNION {{Boundary(i, k, x) : x \in 0..Len(target[i].childNodes[k])} :
                     k \in 1..Len(target[i].childNodes)}

\* where the browser puts typed text when the caret sits between children
InTextNode(i, b) ==
    IF b.node >= 1 \/ target[i].childNodes = <<>> THEN b
    ELSE IF b.offset >= 1 THEN Boundary(i, b.offset, Len(target[i].childNodes[b.offset]))
    ELSE Boundary(i, 1, 0)

\* a live range's start after count characters were inserted at offset o of
\* text node k of element el (CharacterData "replace data")
AfterInsertData(b, el, k, o, count) ==
    IF b # NullRange /\ b.el = el /\ b.node = k /\ b.offset > o
    THEN [b EXCEPT !.offset = @ + count] ELSE b

\* a live range's start after the character before offset o was deleted
AfterDeleteData(b, el, k, o) ==
    IF b # NullRange /\ b.el = el /\ b.node = k /\ b.offset >= o
    THEN [b EXCEPT !.offset = @ - 1] ELSE b

\* the user types character c at the caret of surface i
UserType(i, c, limit) ==
    /\ i \in TagIts
    /\ IF isInputTarget(i)
       THEN LET t == target[i]
                v == SubSeq(t.value, 1, t.selectionStart) \o <<c>>
                        \o SubSeq(t.value, t.selectionEnd + 1, Len(t.value))
            IN /\ Len(v) <= limit
               /\ target' = [target EXCEPT ![i] =
                                InputTarget(v, t.selectionStart + 1, t.selectionStart + 1)]
               /\ UNCHANGED <<selection, savedRange>>
       ELSE /\ selection.rangeCount > 0 /\ selection.range.el = i
            /\ TotalLen(target[i].childNodes) < limit
            /\ LET b == InTextNode(i, selection.range)
                   nodes == target[i].childNodes
               IN IF nodes = <<>>
                  THEN /\ target' = [target EXCEPT ![i].childNodes = << <<c>> >>]
                       /\ selection' = Selected(Boundary(i, 1, 1))
                       /\ UNCHANGED savedRange
                  ELSE /\ target' = [target EXCEPT ![i].childNodes[b.node] =
                                        SubSeq(@, 1, b.offset) \o <<c>>
                                           \o SubSeq(@, b.offset + 1, Len(@))]
                       /\ selection' = Selected(Boundary(i, b.node, b.offset + 1))
                       /\ savedRange' = [j \in Instances |->
                             AfterInsertData(savedRange[j], i, b.node, b.offset, 1)]
    /\ event' = Event("edit", i)
    /\ UNCHANGED <<call, matchScore, suggestions, middlewares, options, wiring, arrayOf,
                   fetchTimeout, dropdown, timers,
                   inflight, overtaken>>

\* the user deletes the selected text, or the character before the caret
UserBackspace(i) ==
    /\ i \in TagIts
    /\ IF isInputTarget(i)
       THEN LET t == target[i]
                from == IF t.selectionStart < t.selectionEnd THEN t.selectionStart
                        ELSE t.selectionStart - 1
            IN /\ from >= 0
               /\ target' = [target EXCEPT ![i] =
                                InputTarget(SubSeq(t.value, 1, from)
                                               \o SubSeq(t.value, t.selectionEnd + 1, Len(t.value)),
                                            from, from)]
               /\ UNCHANGED <<selection, savedRange>>
       ELSE /\ selection.rangeCount > 0 /\ selection.range.el = i
            /\ target[i].childNodes # <<>>
            /\ LET b == InTextNode(i, selection.range)
               IN /\ b.offset >= 1
                  /\ target' = [target EXCEPT ![i].childNodes[b.node] =
                                   SubSeq(@, 1, b.offset - 1) \o SubSeq(@, b.offset + 1, Len(@))]
                  /\ selection' = Selected(Boundary(i, b.node, b.offset - 1))
                  /\ savedRange' = [j \in Instances |->
                        AfterDeleteData(savedRange[j], i, b.node, b.offset)]
    /\ event' = Event("edit", i)
    /\ UNCHANGED <<call, matchScore, suggestions, middlewares, options, wiring, arrayOf,
                   fetchTimeout, dropdown, timers,
                   inflight, overtaken>>

\* the user selects the span [s, e] of input i without a key (mouse, touch)
UserSelect(i, s, e, limit) ==
    /\ i \in TagIts
    /\ isInputTarget(i)
    /\ Len(target[i].value) <= limit
    /\ 0 <= s /\ s <= e /\ e <= Len(target[i].value)
    /\ target' = [target EXCEPT ![i].selectionStart = s, ![i].selectionEnd = e]
    /\ event' = Event("edit", i)
    /\ UNCHANGED <<call, matchScore, selection, savedRange, suggestions, middlewares,
                   options, wiring, arrayOf, fetchTimeout, dropdown, timers,
                   inflight, overtaken>>

\* the user puts the caret at boundary point b of editable surface i without
\* a key
UserMoveCaret(i, b) ==
    /\ i \in TagIts
    /\ ~isInputTarget(i)
    /\ b \in Boundaries(i)
    /\ selection' = Selected(b)
    /\ event' = Event("edit", i)
    /\ UNCHANGED <<call, matchScore, target, savedRange, suggestions, middlewares,
                   options, wiring, arrayOf, fetchTimeout, dropdown, timers,
                   inflight, overtaken>>

\* -------------------------------------------------------- construction
DefaultTriggerChar == <<"@">>
DefaultMaxSuggestions == 5

\* new TagIt(target, options) for each instance in made, on surface and with
\* the document's selection sel: the fields after the constructor, the
\* dropdown created hidden and empty
Configured(made, surface, sel, keep, supplier, initial, most, min) ==
    /\ target = [i \in Instances |-> IF i \in made THEN surface ELSE NoTarget]
    /\ selection = sel
    /\ savedRange = [i \in Instances |-> NullRange]
    /\ suggestions = [i \in Instances |-> IF i \in made THEN initial ELSE <<>>]
    /\ middlewares = [i \in Instances |-> <<>>]
    /\ keepTrigger = [i \in Instances |-> i \in made /\ keep]
    /\ triggerChar = [i \in Instances |-> DefaultTriggerChar]
    /\ maxSuggestions = [i \in Instances |-> most]
    /\ minScore = [i \in Instances |-> min]
    /\ fetchSuggestions = [i \in Instances |-> i \in made /\ supplier]
    /\ fetchTimeout = [i \in Instances |-> 0]
    /\ dropdown = [i \in Instances |-> [display |-> "none", items |-> <<>>]]
    /\ timers = {}
    /\ inflight = [i \in Instances |-> 0]
    /\ overtaken = [i \in Instances |-> 0]
    /\ arrayOf = [i \in Instances |-> i]
    /\ listeners = [i \in Instances |-> IF i \in made THEN attachEvents ELSE {}]
    /\ attached = [i \in Instances |-> i \in made]
    /\ destroyed = [i \in Instances |-> FALSE]
    /\ event = NoEvent

\* the same with the default maxSuggestions and minScore
Fields(made, surface, sel, keep, supplier, initial) ==
    Configured(made, surface, sel, keep, supplier, initial, DefaultMaxSuggestions, Zero)

\* instance 1 alone, no utility call in progress
Constructed(surface, sel, keep, supplier, initial) ==
    /\ call = NoCall
    /\ matchScore = Unscored
    /\ Fields({1}, surface, sel, keep, supplier, initial)

\* no instance was constructed
NoInstance == Fields({}, NoTarget, NoSelection, FALSE, FALSE, <<>>)

\* ------------------------------------- the text model, without a supplier
\* The surface holds any text and any selection when the instance is
\* attached; keystrokes and clicks on the entries follow.
KeyUpText == KeyUp(1)
ClickEntryText == \E n \in 1..Len(dropdown[1].items) : ClickEntry(1, n)

\* the flat buffer
InitInput ==
    \E v \in StringsUpTo(TextAlphabet, MaxLen), keep \in BOOLEAN :
        \E e \in 0..Len(v) : \E s \in 0..e :
            Constructed(InputTarget(v, s, e), NoSelection, keep, FALSE, <<1, 2, 3, 4>>)

\* the user goes on typing while the listing is shown
TypeInput ==
    /\ isInputTarget(1)
    /\ dropdown[1].display = "block"
    /\ \E c \in TextAlphabet : UserType(1, c, MaxLen)

\* the user changes the selection while the listing is shown
SelectInput ==
    /\ dropdown[1].display = "block"
    /\ \E e \in 0..Len(target[1].value) : \E s \in 0..e : UserSelect(1, s, e, MaxLen)

\* the editable tree: empty or one text node, the caret in the node or in
\* the element; the handlers split the node further
\* longest text node drawn for an editable surface
MaxNodeLen == 2

NodeLists == {<<>>} \cup {<<t>> : t \in StringsUpTo(TextAlphabet, MaxNodeLen)}

BoundariesIn(nodes) ==
    {Boundary(1, 0, x) : x \in 0..Len(nodes)}
      \cup UNION {{Boundary(1, k, x) : x \in 0..Len(nodes[k])} : k \in 1..Len(nodes)}

InitEditable ==
    \E nodes \in NodeLists, keep \in BOOLEAN :
        \E b \in BoundariesIn(nodes) :
            Constructed(EditableTarget(nodes), Selected(b), keep, FALSE, <<1, 2, 3, 4>>)

\* the user moves the caret while the listing is shown
MoveCaretEditable ==
    /\ dropdown[1].display = "block"
    /\ \E b \in Boundaries(1) : UserMoveCaret(1, b)

\* either surface
InitText == InitInput \/ InitEditable

NextText ==
    \/ TypeInput
    \/ SelectInput
    \/ MoveCaretEditable
    \/ KeyUpText
    \/ ClickEntryText

SpecText == InitText /\ [][NextText]_vars

\* ------------------------------- the render pipeline, without a supplier
\* The instance is constructed on an input that holds the trigger and maybe
\* a query, with a maxSuggestions and a minScore; candidates and middlewares
\* are added and removed between keystrokes.
RenderTexts == {<<"@">>, <<"@", "x">>}
RenderMaxima == {0, 1, DefaultMaxSuggestions}
RenderThresholds == {Zero, One}
RenderObjs == {1, 3}

InitRender ==
    \E text \in RenderTexts, most \in RenderMaxima, min \in RenderThresholds :
        /\ call = NoCall
        /\ matchScore = Unscored
        /\ Configured({1}, InputTarget(text, Len(text), Len(text)), NoSelection,
                      FALSE, FALSE, <<>>, most, min)

\* the host registers each middleware function once
UseRender ==
    \E m \in Middlewares :
        /\ \A k \in 1..Len(middlewares[1]) : middlewares[1][k] # m
        /\ use(1, m)
AddRender == \E o \in RenderObjs : addSuggestion(1, o)
RemoveRender == \E o \in RenderObjs : removeSuggestion(1, ItemKey(o))
KeyUpRender == KeyUp(1)

NextRender ==
    \/ UseRender
    \/ AddRender
    \/ RemoveRender
    \/ KeyUpRender

SpecRender == InitRender /\ [][NextRender]_vars

\* ---------------------------- a render for a one-letter query, truncated
\* The instance is constructed on an input that holds the query "x" or "a",
\* with candidates whose keys hold, start with, are or lack the query, a
\* maxSuggestions of 1 or 2 and a minScore of 0 or 1; the host may register
\* a middleware, the keystrokes render.
SpecTruncate ==
    /\ \E initial \in StringsUpTo({1, 2, 3}, MaxList), most \in {1, 2},
          min \in {Zero, One}, letter \in {"x", "a"} :
          /\ call = NoCall
          /\ matchScore = Unscored
          /\ Configured({1}, InputTarget(<<"@", letter>>, 2, 2), NoSelection,
                        FALSE, FALSE, initial, most, min)
    /\ [][\/ middlewares[1] = <<>> /\ use(1, "reverse")
          \/ KeyUp(1)]_vars

\* ------------------------------------------ a textarea of several lines
\* The value of a textarea holds line breaks and tabs; keystrokes and clicks
\* on the entries follow.
InitLines ==
    \E v \in StringsUpTo({"@", "\n", "\t", "x"}, MaxLen) :
        \E s \in 0..Len(v) :
            Constructed(InputTarget(v, s, s), NoSelection, FALSE, FALSE, <<1, 3>>)

SpecLines == InitLines /\ [][KeyUpText \/ ClickEntryText]_vars

\* ------------------------------------------ teardown, without a supplier
DestroyText == destroy(1)

NextDestroy ==
    \/ DestroyText
    \/ KeyUpText
    \/ ClickEntryText
    \/ OutsideClick

SpecDestroy == InitInput /\ [][NextDestroy]_vars

\* ------------------------------------------ the failures a handler meets
\* One instance on a flat buffer or an editable tree that holds the trigger
\* character, with a supplier or without; the host registers a middleware
\* that throws and then one that reverses, the user moves the caret and
\* clicks entries, the
\* supplier's promises are fulfilled or rejected (a supplier that throws
\* when called ends in the same catch as one whose promise is rejected).
InitFailure ==
    \E surface \in {InputTarget(<<SPACE, "@">>, 2, 2), EditableTarget(<<<<"@">>>>)},
       supplier \in BOOLEAN :
        Constructed(surface,
                    IF surface.kind = "input" THEN NoSelection
                    ELSE Selected(Boundary(1, 1, 1)),
                    FALSE, supplier, <<1, 3>>)

NextFailure ==
    \/ middlewares[1] = <<>> /\ use(1, "throws")
    \/ middlewares[1] = <<"throws">> /\ use(1, "reverse")
    \/ KeyUp(1)
    \/ SelectInput
    \/ MoveCaretEditable
    \/ \E n \in 1..Len(dropdown[1].items) : ClickEntry(1, n)
    \/ \E t \in timers : TimerFire(t)
    \/ ResolveFetch(1, <<1, 3>>)
    \/ RejectFetch(1)

SpecFailure == InitFailure /\ [][NextFailure]_vars

\* ------------------------------------- two instances on two flat buffers
\* Both values are the trigger character with the caret after it. The host
\* gives each constructor its own array of candidates or gives both the same
\* array, and gives the first instance a supplier and the second none.
InitPair ==
    \E shared \in BOOLEAN :
        /\ call = NoCall
        /\ matchScore = Unscored
        /\ target = [i \in Instances |-> InputTarget(<<"@">>, 1, 1)]
        /\ selection = NoSelection
        /\ savedRange = [i \in Instances |-> NullRange]
        /\ suggestions = [i \in Instances |-> <<1>>]
        /\ arrayOf = [i \in Instances |-> IF shared THEN 1 ELSE i]
        /\ middlewares = [i \in Instances |-> <<>>]
        /\ keepTrigger = [i \in Instances |-> FALSE]
        /\ triggerChar = [i \in Instances |-> DefaultTriggerChar]
        /\ maxSuggestions = [i \in Instances |-> DefaultMaxSuggestions]
        /\ minScore = [i \in Instances |-> Zero]
        /\ fetchSuggestions = [i \in Instances |-> i = 1]
        /\ fetchTimeout = [i \in Instances |-> 0]
        /\ dropdown = [i \in Instances |-> [display |-> "none", items |-> <<>>]]
        /\ timers = {}
        /\ inflight = [i \in Instances |-> 0]
        /\ overtaken = [i \in Instances |-> 0]
        /\ listeners = [i \in Instances |-> attachEvents]
        /\ attached = [i \in Instances |-> TRUE]
        /\ destroyed = [i \in Instances |-> FALSE]
        /\ event = NoEvent

\* the calls and events of either instance; each registers one middleware
NextPair ==
    \/ \E i \in Instances : middlewares[i] = <<>> /\ use(i, "reverse")
    \/ \E i \in Instances : addSuggestion(i, 3)
    \/ \E i \in Instances : removeSuggestion(i, ItemKey(1))
    \/ \E i \in Instances : KeyUp(i)
    \/ \E t \in timers : TimerFire(t)
    \/ \E i \in Instances : ResolveFetch(i, <<3>>)
    \/ \E i \in Instances : RejectFetch(i)

SpecPair == InitPair /\ [][NextPair]_vars

\* --------------------------------- the instance with a supplier configured
\* longest text typed while a supplier is configured
MaxAsyncLen == 2

AsyncAlphabet == {"@", SPACE, "x"}

\* the sequences the supplier's promise is fulfilled with
SupplierResults == {<<>>, <<1, 3>>}

\* the initial candidate lists given in options.suggestions
InitialSuggestions == {<<>>, <<1>>}

Init ==
    \E initial \in InitialSuggestions :
        Constructed(InputTarget(<<>>, 0, 0), NoSelection, FALSE, TRUE, initial)

Type == \E c \in AsyncAlphabet : UserType(1, c, MaxAsyncLen)
\* the user deletes while no timer and no supplier call is pending
Backspace == inflight[1] = 0 /\ timers = {} /\ UserBackspace(1)
KeyUpEvent == KeyUp(1)
Timeout == \E t \in timers : TimerFire(t)
Resolve == \E result \in SupplierResults : ResolveFetch(1, result)
Reject == RejectFetch(1)
Add == \E o \in {3} : addSuggestion(1, o)
Remove == \E o \in {1} : removeSuggestion(1, ItemKey(o))

Next ==
    \/ Type
    \/ Backspace
    \/ KeyUpEvent
    \/ Timeout
    \/ Resolve
    \/ Reject
    \/ OutsideClick
    \/ Add
    \/ Remove

Spec == Init /\ [][Next]_vars

\* ------------------------------------------ progress, with a supplier
\* The user types, keystrokes and clicks outside arrive; a timer that is
\* pending expires and its callback runs, and a promise of the supplier that
\* is pending is settled and the continuation of the callback runs.
SpecLive ==
    /\ Init
    /\ [][Type \/ KeyUpEvent \/ Timeout \/ Resolve \/ Reject \/ OutsideClick]_vars
    /\ WF_vars(Timeout)
    /\ WF_vars(Reject \/ Resolve)

\* ------------------------------------------- teardown, with a supplier
\* The surfaces of the failure model; keystrokes arrive until destroy is
\* called, timers fire and the supplier's promises are fulfilled before and
\* after it.
SpecTeardown ==
    InitFailure /\ [][\/ ~destroyed[1] /\ KeyUp(1)
                      \/ destroy(1)
                      \/ \E t \in timers : TimerFire(t)
                      \/ \E result \in SupplierResults : ResolveFetch(1, result)
                      \/ RejectFetch(1)]_vars

\* ------------------------------------------- direct calls of the utilities
\* longest query drawn for sortAndFilterSuggestions
MaxQueryLen == 2

Thresholds == {Zero, Frac(1, 2), One, Frac(3, 2)}

InitScoreCall ==
    /\ \E k \in StringsUpTo(Letters, MaxKeyLen), q \in StringsUpTo(Letters, MaxKeyLen) :
          call = [NoCall EXCEPT !.fn = "getMatchScore", !.pc = "call",
                                !.key = k, !.query = q]
    /\ matchScore = Unscored
    /\ NoInstance

InitRankCall ==
    /\ \E l \in StringsUpTo(Objs, MaxList), q \in StringsUpTo(Letters, MaxQueryLen),
          t \in Thresholds :
          call = [NoCall EXCEPT !.fn = "sortAndFilterSuggestions", !.pc = "call",
                                !.suggestions = l, !.query = q, !.minScore = t]
    /\ matchScore \in {Unscored, Stale}
    /\ NoInstance

CallGetMatchScore ==
    /\ call.fn = "getMatchScore" /\ call.pc = "call"
    /\ call' = [call EXCEPT !.pc = "return",
                            !.score = getMatchScore(call.key, call.query)]
    /\ UNCHANGED <<matchScore, instanceVars>>

CallSortAndFilterSuggestions ==
    /\ call.fn = "sortAndFilterSuggestions" /\ call.pc = "call"
    /\ LET r == sortAndFilterSuggestions(call.suggestions, call.query,
                                         call.minScore, matchScore)
       IN /\ call' = [call EXCEPT !.pc = "return", !.result = r.result]
          /\ matchScore' = r.matchScore
    /\ UNCHANGED instanceVars

InitScore == InitScoreCall \/ InitRankCall
NextScore == CallGetMatchScore \/ CallSortAndFilterSuggestions
SpecScore == InitScore /\ [][NextScore]_vars

\* --------------------------------- two calls of getMatchScore, one query
\* longest key drawn for the two calls
MaxCompareLen == 5

\* The host scores two keys for the same query, one call after the other.
InitCompare ==
    /\ \E k \in StringsUpTo({"A", "x"}, MaxCompareLen),
          o \in StringsUpTo({"A", "x"}, MaxCompareLen),
          q \in {<<"x">>, <<"a", "x">>} :
          call = [NoCall EXCEPT !.fn = "getMatchScore", !.pc = "call",
                                !.key = k, !.query = q,
                                !.other = o, !.pending = TRUE]
    /\ matchScore = Unscored
    /\ NoInstance

NextCompare ==
    \/ CallGetMatchScore
    \/ /\ call.fn = "getMatchScore" /\ call.pc = "return" /\ call.pending
       /\ call' = [call EXCEPT !.earlier = [key |-> call.key, score |-> call.score],
                               !.key = call.other,
                               !.score = getMatchScore(call.other, call.query),
                               !.pending = FALSE]
       /\ UNCHANGED <<matchScore, instanceVars>>

SpecCompare == InitCompare /\ [][NextCompare]_vars

\* ------------------------------------------------ properties of the scoring
\* ------------------------------------------------- the text model's claims
\* the 0-based indices <= s at which trigger occurs in v
TriggerIndices(v, s, trigger) ==
    {k \in 0..Len(v) : k <= s /\ OccursAt(v, trigger, k)}

Last(indices) == CHOOSE k \in indices : \A j \in indices : j <= k

EndsWith(t, s) ==
    Len(s) <= Len(t) /\ SubSeq(t, Len(t) - Len(s) + 1, Len(t)) = s

\* "hello @al" with the caret at the end, and "Alice"
ScenarioBuffer ==
    InputTarget(<<"h", "e", "l", "l", "o", SPACE, "@", "a", "l">>, 9, 9)

Alice == <<"A", "l", "i", "c", "e">>

\* C1: selecting a candidate with display text T in an input/textarea with
\* value v and selection [s, e], where i is the last index <= s of the
\* trigger character, sets the value to v[0,i) + (trigger if keepTrigger) +
\* T + " " + v[e..] and collapses the caret at i + (1 if keepTrigger) + |T|
\* + 1; "hello @al" with "Alice" becomes "hello Alice " or "hello @Alice ",
\* the caret after the trailing space.
C1_FlatBufferSplice ==
    [][/\ (event'.type = "click" /\ target[event'.inst].kind = "input") =>
            LET i == event'.inst
                v == target[i].value
                s == target[i].selectionStart
                e == target[i].selectionEnd
                T == event'.tag
                at == TriggerIndices(v, s, triggerChar[i])
                kept == IF keepTrigger[i] THEN triggerChar[i] ELSE <<>>
                caret == Last(at) + Len(kept) + Len(T) + 1
            IN at # {} =>
                 /\ target'[i].value =
                       SubSeq(v, 1, Last(at)) \o kept \o T \o <<SPACE>>
                          \o SubSeq(v, e + 1, Len(v))
                 /\ target'[i].selectionStart = caret
                 /\ target'[i].selectionEnd = caret
       /\ event'.type = "click" =>
            LET after == insertTagForTextarea(1, Alice,
                                              [target EXCEPT ![1] = ScenarioBuffer])
                expected == IF keepTrigger[1]
                            THEN <<"h", "e", "l", "l", "o", SPACE, "@">> \o Alice \o <<SPACE>>
                            ELSE <<"h", "e", "l", "l", "o", SPACE>> \o Alice \o <<SPACE>>
            IN /\ after.value = expected
               /\ after.selectionStart = Len(expected)
               /\ after.selectionEnd = Len(expected)]_vars

\* "x @" with the caret at the end took the candidate shown as "x": the value
\* is "x x " and the caret follows the trailing space
C1_Witness ==
    /\ event.type = "click" /\ event.tag = <<"x">>
    /\ ~keepTrigger[1]
    /\ target[1] = InputTarget(<<"x", SPACE, "x", SPACE>>, 4, 4)

\* the text before the caret of surface i
TextBeforeCaret(i, tg, sel) ==
    IF tg[i].kind = "input" THEN getTextBeforeCaretForInput(i, tg)
    ELSE getTextBeforeCaretForEditable(i, tg, sel)

\* C2: on either surface, after a splice of candidate X the text before the
\* new caret ends with (the trigger character iff keepTrigger) + X's display
\* text + the trailing space.
C2_RoundTrip ==
    [][(event'.type = "click" /\ target' # target) =>
          LET i == event'.inst
              kept == IF keepTrigger[i] THEN triggerChar[i] ELSE <<>>
          IN EndsWith(TextBeforeCaret(i, target', selection'),
                      kept \o event'.tag \o <<SPACE>>)]_vars

\* the last token of the text, its non-breaking spaces read as spaces, starts
\* with the trigger, and no space lies between the last trigger at or before
\* the caret and the caret
LastTokenTriggered(text, trigger) ==
    LET spaces == {k \in 1..Len(text) : text[k] \in {SPACE, NBSP}}
        first == IF spaces = {} THEN 1 ELSE Last(spaces) + 1
        at == TriggerIndices(text, Len(text), trigger)
    IN /\ OccursAt(text, trigger, first - 1)
       /\ at # {} => \A k \in (Last(at) + 2)..Len(text) : text[k] # SPACE

\* C3: a keystroke evaluates the trigger as active exactly when the last
\* space-separated token of the text before the caret (non-breaking spaces
\* taken as spaces) starts with the trigger character and the query holds no
\* space.
C3_ActiveIffLastTokenTriggered ==
    [][event'.type = "keyup" =>
          LET i == event'.inst
          IN event'.active <=>
                LastTokenTriggered(TextBeforeCaret(i, target, selection), triggerChar[i])]_vars

\* a keystroke after a non-breaking space and the trigger was active
C3_Witness ==
    /\ event.type = "keyup" /\ event.active
    /\ target[1] = InputTarget(<<NBSP, "@", "x">>, 3, 3)

\* ------------------------------------------------ the supplier's claims
\* C4: when a keystroke finds the trigger inactive, no debounce timer of the
\* instance is pending and its dropdown is hidden when the handler is done,
\* and no timer older than a keystroke is left to invoke the supplier.
C4_InactiveCancels ==
    /\ (event.type = "keyup" /\ ~event.active) =>
          /\ TimersOf(event.inst) = {}
          /\ dropdown[event.inst].display = "none"
    /\ \A t \in timers : t.latest

\* an inactive keystroke arrived while a timer was pending
C4_Witness ==
    /\ event.type = "keyup" /\ ~event.active /\ event.pending
    /\ target[1].value = <<"@", SPACE>>

\* C5: an instance has at most one pending debounce timer, the one its
\* handle names; an active keystroke leaves exactly the timer it scheduled;
\* the supplier is invoked only by the timer of the latest keystroke.
C5_Debounce ==
    /\ \A i \in Instances :
          /\ Cardinality(TimersOf(i)) <= 1
          /\ \A t \in TimersOf(i) : t.id = fetchTimeout[i]
    /\ (event.type = "keyup" /\ event.active /\ fetchSuggestions[event.inst]) =>
          \E t \in timers : TimersOf(event.inst) = {t} /\ t.latest
    /\ event.type = "timer" => event.latest

\* an active keystroke arrived while the timer of an earlier one was pending
C5_Witness ==
    /\ event.type = "keyup" /\ event.active /\ event.pending
    /\ Cardinality(TimersOf(1)) = 1

\* C6: when the supplier's promise resolves with R the candidate set is R,
\* whatever it held before.
C6_ResolveReplaces ==
    event.type = "resolve" => suggestions[event.inst] = event.result

\* a result replaced a candidate set made of two added candidates
C6_Witness ==
    /\ event.type = "resolve"
    /\ event.old = <<3, 3>>
    /\ event.result = <<1, 3>>
    /\ suggestions[1] = <<1, 3>>

\* -------------------------------------------------- the utilities' claims
Returned(fn) == call.fn = fn /\ call.pc = "return"

\* q is a substring of k when letter case is ignored
SubstringIgnoringCase(k, q) ==
    \E at \in 0..Len(k) : /\ at + Len(q) <= Len(k)
                          /\ \A j \in 1..Len(q) : LowerChar(k[at + j]) = LowerChar(q[j])

Count(list, o) == Cardinality({k \in 1..Len(list) : list[k] = o})

\* C7: for a non-empty query the returned list holds exactly the input
\* candidates whose score for that query is >= the threshold, in order of
\* non-increasing score, and each returned candidate carries that score.
C7_RankFiltersAndSorts ==
    (Returned("sortAndFilterSuggestions") /\ call.query # <<>>) =>
        /\ \A o \in Objs :
              Count(call.result, o) =
                 IF NumLE(call.minScore, getMatchScore(ItemKey(o), call.query))
                 THEN Count(call.suggestions, o) ELSE 0
        /\ \A j, k \in 1..Len(call.result) :
              j < k => NumLE(matchScore[call.result[k]], matchScore[call.result[j]])
        /\ \A k \in 1..Len(call.result) :
              matchScore[call.result[k]] = getMatchScore(ItemKey(call.result[k]), call.query)

\* a call that dropped a candidate and had to move one forward
C7_Witness ==
    /\ Returned("sortAndFilterSuggestions") /\ call.query # <<>>
    /\ Len(call.result) >= 2
    /\ Len(call.result) < Len(call.suggestions)
    /\ call.result[1] # call.suggestions[1]
    /\ NumLT(matchScore[call.result[2]], matchScore[call.result[1]])

\* C8: for an empty query the input list is returned as it is, whatever the
\* threshold, and no candidate's matchScore is attached or altered.
C8_EmptyQueryReturnsInput ==
    [][(call.fn = "sortAndFilterSuggestions" /\ call.query = <<>>
         /\ call.pc = "call" /\ call'.pc = "return") =>
          /\ call'.result = call.suggestions
          /\ matchScore' = matchScore]_vars

\* an empty-query call above threshold 0 on a non-empty list has returned
C8_Witness ==
    /\ Returned("sortAndFilterSuggestions") /\ call.query = <<>>
    /\ Len(call.suggestions) >= 2
    /\ NumLT(Zero, call.minScore)
    /\ call.result = call.suggestions

\* C9: every match score lies in [0, 1].
C9_ScoreInUnitInterval ==
    Returned("getMatchScore") =>
        /\ call.score.d > 0
        /\ NumLE(Zero, call.score)
        /\ NumLE(call.score, One)

\* a score strictly between 0 and 1 was returned
C9_Witness ==
    /\ Returned("getMatchScore")
    /\ NumLT(Zero, call.score) /\ NumLT(call.score, One)

\* C10 as stated: the score is 0 exactly when the query is not a
\* case-insensitive substring of the key, for all keys and queries.
C10_ZeroIffNotSubstring ==
    Returned("getMatchScore") =>
        (call.score = Zero <=> ~SubstringIgnoringCase(call.key, call.query))

\* C10 amended: the same for every non-empty query.
C10_ZeroIffNotSubstringNonEmpty ==
    (Returned("getMatchScore") /\ call.query # <<>>) =>
        (call.score = Zero <=> ~SubstringIgnoringCase(call.key, call.query))

\* both directions occur: a non-empty query found past index 0 scored above 0
C10_Witness ==
    /\ Returned("getMatchScore")
    /\ call.query # <<>>
    /\ SubstringIgnoringCase(call.key, call.query)
    /\ toLowerCase(call.key) # toLowerCase(call.query)
    /\ ~startsWith(toLowerCase(call.key), toLowerCase(call.query))
    /\ NumLT(Zero, call.score)

\* k and q are equal when letter case is ignored
EqualIgnoringCase(k, q) ==
    Len(k) = Len(q) /\ \A j \in 1..Len(k) : LowerChar(k[j]) = LowerChar(q[j])

\* C11 as stated: a query equal to the key up to letter case scores 1, for
\* every key.
C11_EqualScoresOne ==
    (Returned("getMatchScore") /\ EqualIgnoringCase(call.key, call.query)) =>
        call.score = One

\* C11 amended: the same for every non-empty key.
C11_EqualNonEmptyScoresOne ==
    (Returned("getMatchScore") /\ EqualIgnoringCase(call.key, call.query)
       /\ call.key # <<>>) =>
        call.score = One

\* a query that differs from the key in letter case only scored 1
C11_Witness ==
    /\ Returned("getMatchScore")
    /\ call.key = <<"A", "x">> /\ call.query = <<"a", "x">>
    /\ call.score = One

\* the reference definition of the score
FirstOccurrence(k, q) ==
    LET found == {at \in 0..Len(k) :
                     /\ at + Len(q) <= Len(k)
                     /\ \A j \in 1..Len(q) : LowerChar(k[at + j]) = LowerChar(q[j])}
    IN CHOOSE at \in found : \A other \in found : at <= other

ReferenceScore(k, q) ==
    IF q = <<>> THEN Zero
    ELSE IF EqualIgnoringCase(k, q) THEN One
    ELSE IF ~SubstringIgnoringCase(k, q) THEN Zero
    ELSE NumSub(One, Frac(FirstOccurrence(k, q), Len(k)))

\* C12: getMatchScore is the reference definition: 0 for an empty query, 1
\* for equality up to case, 0 when the query is no substring, else 1 - (first
\* index of the query) / (length of the key); "Alice" and "Albert" both score
\* 1 for "al".
C12_AgreesWithReference ==
    /\ Returned("getMatchScore") => call.score = ReferenceScore(call.key, call.query)
    /\ getMatchScore(<<"A", "l", "i", "c", "e">>, <<"a", "l">>) = One
    /\ getMatchScore(<<"A", "l", "b", "e", "r", "t">>, <<"a", "l">>) = One

\* a query found at index 2 of a key of length 3 scored 1/3
C12_Witness ==
    /\ Returned("getMatchScore")
    /\ call.key = <<"a", "A", "x">> /\ call.query = <<"x">>
    /\ call.score = Frac(1, 3)

\* ------------------------------------------------ the pipeline's claims
\* a keystroke found the trigger active on an instance without a supplier:
\* its handler renders
Renders == event'.type = "keyup" /\ event'.active /\ ~fetchSuggestions[event'.inst]

\* the list the scoring returns for list, in the state before the render
Ranked(i, list) ==
    sortAndFilterSuggestions(list, toLowerCase(getTriggerQuery(i, target, selection)),
                             minScore[i], matchScore).result

\* the first min(n, most) entries of list
FirstEntries(list, most) ==
    [k \in 1..(IF Len(list) <= most THEN Len(list) ELSE most) |-> list[k]]

\* C13: for maxSuggestions >= 0 a render shows the first min(n,
\* maxSuggestions) entries of the ranked list, in ranked order, and hides
\* the dropdown when that list is empty; a visible dropdown holds between 1
\* and maxSuggestions entries.
C13_RenderTruncates ==
    [][/\ (Renders /\ maxSuggestions[event'.inst] >= 0) =>
            LET i == event'.inst
                ranked == Ranked(i, ApplyMiddlewares(middlewares[i], suggestions[i]))
                shown == FirstEntries(ranked, maxSuggestions[i])
            IN IF shown = <<>> THEN dropdown'[i].display = "none"
               ELSE dropdown'[i] = [display |-> "block", items |-> shown]
       /\ \A i \in Instances :
             (dropdown'[i].display = "block" /\ maxSuggestions[i] >= 0) =>
                /\ Len(dropdown'[i].items) >= 1
                /\ Len(dropdown'[i].items) <= maxSuggestions[i]]_vars

\* the dropdown had been rendered, the candidates were removed, and the next
\* render hid it
C13_Witness ==
    /\ event.type = "keyup" /\ event.active
    /\ suggestions[1] = <<>>
    /\ maxSuggestions[1] = 1
    /\ dropdown[1].display = "none" /\ dropdown[1].items # <<>>

\* what a middleware returns for list when it does not throw
StageOutput(m, list) ==
    IF m = "reverse" THEN [k \in 1..Len(list) |-> list[Len(list) + 1 - k]]
    ELSE IF m = "dropFirst" THEN [k \in 1..(Len(list) - 1) |-> list[k + 1]]
    ELSE list

\* the stages in registration order from the k-th on, each given the output
\* of the one before it, a throwing stage being the identity
RECURSIVE Pipeline(_, _, _)
Pipeline(ms, k, list) ==
    IF k > Len(ms) THEN list
    ELSE Pipeline(ms, k + 1, IF ms[k] = "throws" THEN list ELSE StageOutput(ms[k], list))

\* the dropdown a render leaves for instance i when the scoring is given list
Rendered(i, list) ==
    LET shown == FirstEntries(Ranked(i, list), maxSuggestions[i])
    IN IF shown = <<>> THEN hideDropdown(dropdown[i])
       ELSE [display |-> "block", items |-> shown]

\* C14: a middleware that throws is the identity for that render, every
\* middleware registered after it is still applied, the next one to the list
\* the failing one was given, and the render goes on to scoring and
\* truncation.
C14_ThrowingMiddlewareSkipped ==
    [][(Renders /\ \E k \in 1..Len(middlewares[event'.inst]) :
                      middlewares[event'.inst][k] = "throws") =>
          LET i == event'.inst
              others == SelectSeq(middlewares[i], LAMBDA m : m # "throws")
          IN /\ dropdown'[i] = Rendered(i, Pipeline(middlewares[i], 1, suggestions[i]))
             /\ dropdown'[i] = Rendered(i, Pipeline(others, 1, suggestions[i]))]_vars

\* a render with a throwing middleware registered before a reversing one
\* showed the candidates reversed
C14_Witness ==
    /\ event.type = "keyup" /\ event.active
    /\ middlewares[1] = <<"throws", "reverse">>
    /\ target[1].value = <<"@">>
    /\ suggestions[1] = <<1, 3>>
    /\ dropdown[1] = [display |-> "block", items |-> <<3, 1>>]

\* list a is list b with entries added at the end
Extends(a, b) == Len(a) >= Len(b) /\ \A k \in 1..Len(b) : a[k] = b[k]

\* C15: every render applies the registered middlewares in the order of their
\* use calls, each on the output of the one before, starting from a copy of
\* the candidate set and before the scoring; a use call only appends; no step
\* removes or reorders a registered middleware; the render leaves the
\* instance's candidate set as it was.
C15_MiddlewaresInRegistrationOrder ==
    [][/\ Renders =>
            /\ dropdown'[event'.inst] =
                  Rendered(event'.inst,
                           Pipeline(middlewares[event'.inst], 1, suggestions[event'.inst]))
            /\ suggestions' = suggestions
            /\ middlewares' = middlewares
       /\ event'.type = "use" =>
            /\ \E m \in Middlewares :
                  middlewares'[event'.inst] = Append(middlewares[event'.inst], m)
            /\ \A j \in TagIts \ {event'.inst} : middlewares'[j] = middlewares[j]
       /\ \A j \in TagIts : Extends(middlewares'[j], middlewares[j])]_vars

\* a render with a reversing middleware registered before one that shifts its
\* argument in place showed the first candidate alone and kept both candidates
C15_Witness ==
    /\ event.type = "keyup" /\ event.active
    /\ middlewares[1] = <<"reverse", "dropFirst">>
    /\ target[1].value = <<"@">>
    /\ suggestions[1] = <<1, 3>>
    /\ dropdown[1] = [display |-> "block", items |-> <<1>>]

\* the positions of list whose entry has a key other than key, in order
RECURSIVE KeptPositions(_, _, _)
KeptPositions(list, key, k) ==
    IF k > Len(list) THEN <<>>
    ELSE (IF ItemKey(list[k]) = key THEN <<>> ELSE <<k>>)
            \o KeptPositions(list, key, k + 1)

\* C16: after removeSuggestion(k) no entry of the candidate set has key k,
\* the entries with another key are all still there in their previous
\* relative order, and a key no entry has leaves the candidate set unchanged.
C16_RemoveAllWithKey ==
    [][event'.type = "removeSuggestion" =>
          LET i == event'.inst
              key == event'.key
              kept == KeptPositions(suggestions[i], key, 1)
          IN /\ \A k \in 1..Len(suggestions'[i]) : ItemKey(suggestions'[i][k]) # key
             /\ Len(suggestions'[i]) = Len(kept)
             /\ \A k \in 1..Len(kept) : suggestions'[i][k] = suggestions[i][kept[k]]
             /\ (\A k \in 1..Len(suggestions[i]) : ItemKey(suggestions[i][k]) # key)
                   => suggestions'[i] = suggestions[i]
             /\ \A j \in TagIts \ {i} : suggestions'[j] = suggestions[j]]_vars

\* removeSuggestion took both entries with key "x" out of the candidate set
C16_Witness ==
    /\ event.type = "removeSuggestion"
    /\ event.key = <<"x">>
    /\ event.old = <<3, 3>>
    /\ suggestions[1] = <<>>

\* C17: addSuggestion(c) leaves the candidate set equal to the previous one
\* followed by c, whether or not an entry with c's key is present, and does
\* not touch the middleware list, the dropdown or the pending timer.
C17_AddAppends ==
    [][event'.type = "addSuggestion" =>
          LET i == event'.inst
              c == event'.item
          IN /\ suggestions'[i] = suggestions[i] \o <<c>>
             /\ \A j \in TagIts \ {i} : suggestions'[j] = suggestions[j]
             /\ middlewares' = middlewares
             /\ dropdown' = dropdown
             /\ fetchTimeout' = fetchTimeout
             /\ timers' = timers]_vars

\* addSuggestion was given a candidate whose key the only entry has, while a
\* timer was pending and the dropdown visible, and the set holds both
C17_Witness ==
    /\ event.type = "addSuggestion"
    /\ event.item = 3
    /\ suggestions[1] = <<3, 3>>
    /\ fetchTimeout[1] # 0
    /\ TimersOf(1) # {}
    /\ dropdown[1].display = "block"

\* C18: once destroy has run, the instance's keyup listener and its click
\* listener are no longer registered, its dropdown element is no longer
\* attached to the document, and no later keyup or click changes any of the
\* instance's state.
C18_DestroyedInstanceInert ==
    [][\A i \in TagIts :
          destroyed[i] =>
             /\ ~Listens(i, "keyup")
             /\ ~Listens(i, "click")
             /\ ~attached[i]
             /\ dropdown'[i] = dropdown[i]
             /\ savedRange'[i] = savedRange[i]
             /\ suggestions'[i] = suggestions[i]
             /\ fetchTimeout'[i] = fetchTimeout[i]]_vars

\* C19: a rejected supplier call leaves the candidate set, the dropdown's
\* visibility and its entries as they were, starts no supplier call and
\* schedules none; a supplier call starts only when a timer fires, and a
\* timer is scheduled only by a keystroke.
C19_RejectLeavesState ==
    [][/\ event'.type = "reject" =>
            /\ suggestions' = suggestions
            /\ dropdown' = dropdown
            /\ timers' = timers
            /\ fetchTimeout' = fetchTimeout
            /\ inflight' = [inflight EXCEPT ![event'.inst] = @ - 1]
       /\ \A j \in TagIts :
            /\ inflight'[j] > inflight[j] => event'.type = "timer" /\ event'.inst = j
            /\ ~(TimersOf(j)' \subseteq TimersOf(j)) =>
                  event'.type = "keyup" /\ event'.inst = j]_vars

\* a supplier call was rejected while the dropdown showed entries and no
\* timer or other call was outstanding
C19_Witness ==
    /\ event.type = "reject"
    /\ dropdown[1].display = "block"
    /\ dropdown[1].items # <<>>
    /\ suggestions[1] # <<>>
    /\ inflight[1] = 0
    /\ TimersOf(1) = {}

\* C20: a click on a dropdown entry hands the splice the display text that
\* entry was rendered with, the document is as the splice leaves it, and
\* afterwards the dropdown is hidden, also when the splice changed nothing.
C20_ClickSplicesThenHides ==
    [][event'.type = "click" =>
          LET i == event'.inst
              after == insertTag(i, event'.tag, target, selection, savedRange)
          IN /\ dropdown[i].display = "block"
             /\ \E n \in 1..Len(dropdown[i].items) :
                   event'.tag = ItemDisplay(dropdown[i].items[n])
             /\ target' = after.target
             /\ selection' = after.selection
             /\ savedRange' = after.savedRange
             /\ dropdown'[i].display = "none"]_vars

\* an entry was clicked with the caret moved in front of the trigger: the
\* splice found no trigger and left the text as it was, the dropdown is hidden
C20_Witness ==
    /\ event.type = "click"
    /\ target[1].kind = "input"
    /\ target[1].value = <<SPACE, "@">>
    /\ target[1].selectionStart = 0
    /\ target[1].selectionEnd = 0
    /\ dropdown[1].display = "none"

\* ------------------------------------------------ two instances' claims
\* the calls and events of one instance the independence is stated for
OwnEvents == {"addSuggestion", "removeSuggestion", "use", "keyup", "timer",
              "resolve", "reject"}

\* C21: addSuggestion, removeSuggestion, use, a keystroke or a fetch
\* completion on one instance leaves the other instance's candidate set,
\* middleware list, pending timer and dropdown entries as they were, with
\* whatever configuration the two were constructed.
C21_InstancesIndependent ==
    [][event'.type \in OwnEvents =>
          \A j \in TagIts \ {event'.inst} :
             /\ suggestions'[j] = suggestions[j]
             /\ middlewares'[j] = middlewares[j]
             /\ fetchTimeout'[j] = fetchTimeout[j]
             /\ TimersOf(j)' = TimersOf(j)
             /\ dropdown'[j].items = dropdown[j].items]_vars

\* C23: no keystroke cancels a supplier call in flight, and every fulfilled
\* call, also one dispatched before a call that has been fulfilled already,
\* makes its result the candidate set and the content rendered: a call
\* dispatched earlier can resolve after one dispatched later and win.
C23_StaleResultWins ==
    [][/\ event'.type \in {"keyup", "edit"} =>
            inflight' = inflight /\ overtaken' = overtaken
       /\ event'.type = "resolve" =>
            LET i == event'.inst
            IN /\ suggestions'[i] = event'.result
               /\ dropdown'[i] =
                     Rendered(i, Pipeline(middlewares[i], 1, event'.result))]_vars

\* a call dispatched before one that was fulfilled with no candidates was
\* fulfilled after it: its two candidates are the candidate set and are shown
C23_Witness ==
    /\ event.type = "resolve"
    /\ event.stale
    /\ event.old = <<>>
    /\ event.result = <<1, 3>>
    /\ suggestions[1] = <<1, 3>>
    /\ dropdown[1].display = "block"
    /\ Count(dropdown[1].items, 1) = 1 /\ Count(dropdown[1].items, 3) = 1

\* ------------------------------------------------- the failures' claims
\* the events whose handlers are the keyup handler, the timer callback and
\* the click handler of an entry
Handled == {"keyup", "timer", "resolve", "reject", "click"}

RenderedInput ==
    /\ event.type = "keyup" /\ event.active
    /\ ~fetchSuggestions[event.inst]
    /\ target[event.inst].kind = "input"

\* C24: on a flat buffer the query a render extracts is the text between the
\* last trigger character at or before the caret and the caret: a suffix of
\* the text before the caret, with no character from offset s onwards.
C24_QueryIsTextBeforeCaret ==
    RenderedInput =>
       LET i == event.inst
           v == target[i].value
           s == target[i].selectionStart
           at == TriggerIndices(v, s, triggerChar[i])
       IN /\ EndsWith(SubSeq(v, 1, s), event.query)
          /\ at # {} => event.query = SubSeq(v, Last(at) + 2, s)
          /\ getQueryForInput(1, [target EXCEPT ![1] = ScenarioBuffer]) = <<"a", "l">>

\* C25: when an entry is selected on a flat buffer while the trigger is
\* active and the caret collapsed, the text the splice replaces is the
\* trigger character followed by the query that query extraction reports for
\* the same text and caret, it ends at the caret, and the text before it and
\* the text from the caret onwards are kept as they are.
C25_SpliceReplacesTriggerAndQuery ==
    [][(/\ event'.type = "click"
        /\ target[event'.inst].kind = "input"
        /\ target[event'.inst].selectionStart = target[event'.inst].selectionEnd
        /\ isTriggerActive(event'.inst, target, selection)) =>
          LET i == event'.inst
              v == target[i].value
              s == target[i].selectionStart
              span == triggerChar[i] \o getQueryForInput(i, target)
              kept == IF keepTrigger[i] THEN triggerChar[i] ELSE <<>>
          IN /\ EndsWith(SubSeq(v, 1, s), span)
             /\ target'[i].value =
                   SubSeq(v, 1, s - Len(span)) \o kept \o event'.tag \o <<SPACE>>
                      \o SubSeq(v, s + 1, Len(v))]_vars

\* the caret a splice on the editable tree of i starts from: the saved range
\* if there is one, else the selection
SpliceCaret(i) == IF savedRange[i] # NullRange THEN Selected(savedRange[i]) ELSE selection

\* C26: on the editable tree, when an entry with display text T is selected
\* while the saved caret is at offset o of a text node with content t that
\* has a trigger at an index <= o, the last such index being x, the node is
\* replaced, at its position among its siblings, by three text nodes
\* t[0,x), (trigger if keepTrigger) + T + space and t[o..], no other child
\* changes, and the selection is collapsed in the parent right after the
\* second of the three.
C26_EditableSpliceThreeNodes ==
    [][(/\ event'.type = "click"
        /\ target[event'.inst].kind = "editable"
        /\ SpliceCaret(event'.inst).rangeCount > 0
        /\ isTextNode(SpliceCaret(event'.inst).range)
        /\ TriggerIndices(textContent(target, SpliceCaret(event'.inst).range),
                          SpliceCaret(event'.inst).range.offset,
                          triggerChar[event'.inst]) # {}) =>
          LET i == event'.inst
              c == SpliceCaret(i).range
              t == textContent(target, c)
              o == c.offset
              x == Last(TriggerIndices(t, o, triggerChar[i]))
              kept == IF keepTrigger[i] THEN triggerChar[i] ELSE <<>>
              old == target[c.el].childNodes
              new == target'[c.el].childNodes
          IN /\ Len(new) = Len(old) + 2
             /\ \A k \in 1..(c.node - 1) : new[k] = old[k]
             /\ new[c.node] = SubSeq(t, 1, x)
             /\ new[c.node + 1] = kept \o event'.tag \o <<SPACE>>
             /\ new[c.node + 2] = SubSeq(t, o + 1, Len(t))
             /\ \A k \in (c.node + 1)..Len(old) : new[k + 2] = old[k]
             /\ \A j \in Instances \ {c.el} : target'[j] = target[j]
             /\ selection' = Selected(Boundary(c.el, 0, c.node + 1))]_vars

\* the entry "x" was selected with the caret at the end of "@x", the
\* trigger kept: the tree holds "", "@x " and "" and the caret is in the
\* element, after the second node
C26_Witness ==
    /\ event.type = "click"
    /\ event.tag = <<"x">>
    /\ target[1].kind = "editable"
    /\ keepTrigger[1]
    /\ \E k \in 1..Len(target[1].childNodes) :
          /\ k + 1 <= Len(target[1].childNodes)
          /\ target[1].childNodes[k] = <<"@", "x", SPACE>>
          /\ selection = Selected(Boundary(1, 0, k))

\* the trigger of i occurs at no index up to the caret in the text that is
\* searched: the value read with the surface's caret, or the text node of
\* the caret sel
TriggerMissing(i, tg, sel) ==
    IF tg[i].kind = "input"
    THEN TriggerIndices(tg[i].value, tg[i].selectionStart, triggerChar[i]) = {}
    ELSE /\ sel.rangeCount > 0
         /\ isTextNode(sel.range)
         /\ TriggerIndices(textContent(tg, sel.range), sel.range.offset,
                           triggerChar[i]) = {}

\* C27: when the trigger character occurs nowhere at or before the caret in
\* the text that is searched, the query is the empty string, and a click on
\* an entry changes nothing: on the flat buffer the value and the selection
\* stay, on the editable tree the children of every element stay; nothing
\* is thrown out of the handler.
C27_TriggerNotFoundIsNoOp ==
    [][/\ \A i \in TagIts :
             TriggerMissing(i, target', selection')
                => getTriggerQuery(i, target', selection') = <<>>
       /\ (event'.type = "click"
             /\ TriggerMissing(event'.inst, target, SpliceCaret(event'.inst))) =>
               /\ target' = target
               /\ event'.escaped = {}
               /\ "trigger" \in event'.failure]_vars

\* an entry was clicked on the editable tree while the saved caret was at
\* the start of an empty text node behind the node with the trigger: the
\* three nodes are as they were
C27_Witness ==
    /\ event.type = "click"
    /\ event.failure = {"trigger"}
    /\ target[1].kind = "editable"
    /\ target[1].childNodes = <<<<"@">>, <<>>, <<>>>>
    /\ savedRange[1] = Boundary(1, 2, 0)

\* the surface of i is an editable tree and the caret sel is in a node that
\* is not a text node
CaretInElement(i, tg, sel) ==
    /\ tg[i].kind = "editable"
    /\ sel.rangeCount > 0
    /\ ~isTextNode(sel.range)

\* C28: on an editable tree whose caret is in a node that is not a text node
\* the text before the caret and the query are empty and the trigger is
\* inactive, a keystroke finds the trigger inactive, and a click on an entry
\* whose splice caret is in such a node leaves every surface as it was;
\* nothing is thrown out of a handler.
C28_CaretOutsideTextDegrades ==
    [][/\ \A i \in TagIts :
             CaretInElement(i, target', selection') =>
                /\ getTextBeforeCaretForEditable(i, target', selection') = <<>>
                /\ getTriggerQuery(i, target', selection') = <<>>
                /\ ~isTriggerActive(i, target', selection')
       /\ (event'.type = "keyup" /\ CaretInElement(event'.inst, target, selection)) =>
               /\ ~event'.active
               /\ event'.escaped = {}
       /\ (event'.type = "click"
             /\ CaretInElement(event'.inst, target, SpliceCaret(event'.inst))) =>
               /\ target' = target
               /\ event'.escaped = {}
               /\ "container" \in event'.failure]_vars

\* an entry was clicked while the saved caret was in the element, behind
\* the text node that holds the trigger: the tree is as it was
C28_Witness ==
    /\ event.type = "click"
    /\ event.failure = {"container"}
    /\ target[1].kind = "editable"
    /\ savedRange[1].el = 1
    /\ savedRange[1].node = 0
    /\ savedRange[1].offset >= 1
    /\ target[1].childNodes[1] = <<"@">>

\* C29: a render leaves the candidate set of the instance as it was: the
\* same entries in the same order, and every entry's matchScore field what
\* it was before the render.
C29_RenderLeavesCandidates ==
    [][Renders =>
          /\ suggestions'[event'.inst] = suggestions[event'.inst]
          /\ \A k \in 1..Len(suggestions[event'.inst]) :
                matchScore'[suggestions[event'.inst][k]]
                   = matchScore[suggestions[event'.inst][k]]]_vars

\* the evaluation of the trigger as a function of a text, a caret offset in
\* it and the trigger character, and of nothing else
Evaluation(text, caret, trigger) ==
    LET before == SubSeq(text, 1, caret)
        breaks == {k \in 1..caret : before[k] \in {SPACE, NBSP}}
        token == SubSeq(before, IF breaks = {} THEN 1 ELSE Last(breaks) + 1, caret)
    IN Len(trigger) <= Len(token) /\ SubSeq(token, 1, Len(trigger)) = trigger

\* C30: what a keystroke evaluates, active or idle, is given by the text and
\* the caret it finds and the trigger character alone, whatever the earlier
\* keystrokes, the dropdown, the candidate set, the pending timers and the
\* supplier calls in flight are.
C30_EvaluationFromTextAndCaret ==
    [][event'.type = "keyup" =>
          LET i == event'.inst
              c == selection.range
          IN event'.active =
                IF target[i].kind = "input"
                THEN Evaluation(target[i].value, target[i].selectionStart, triggerChar[i])
                ELSE /\ selection.rangeCount > 0
                     /\ isTextNode(c)
                     /\ Evaluation(textContent(target, c), c.offset, triggerChar[i])]_vars

\* a keystroke found the text "@" with the caret behind it while the
\* dropdown was shown with two candidates, a timer was pending and a supplier
\* call was in flight, and evaluated active as the first keystroke on "@" does
C30_Witness ==
    /\ event.type = "keyup" /\ event.active /\ event.pending
    /\ target[1].value = <<"@">>
    /\ target[1].selectionStart = 1
    /\ dropdown[1].display = "block"
    /\ suggestions[1] = <<1, 3>>
    /\ inflight[1] > 0

\* ------------------------------------------ two keys scored for one query
\* q occurs in k, letter case ignored, and is not equal to it
ProperSubstring(k, q) == SubstringIgnoringCase(k, q) /\ ~EqualIgnoringCase(k, q)

\* C31: of two keys that both hold the query as a proper substring, letter
\* case ignored, the one in which the query first occurs at the smaller
\* index scores at least as high as the other, whatever their lengths.
C31_EarlierScoresHigher ==
    (/\ Returned("getMatchScore") /\ ~call.pending
     /\ ProperSubstring(call.key, call.query)
     /\ ProperSubstring(call.earlier.key, call.query)
     /\ FirstOccurrence(call.earlier.key, call.query)
           < FirstOccurrence(call.key, call.query)) =>
        NumLE(call.score, call.earlier.score)

\* ------------------------------------------------- when a render happens
\* C32: without a supplier a keystroke that evaluates active renders in its
\* handler, from the candidate set it finds, and schedules no timer; with a
\* supplier a keystroke that evaluates active leaves the dropdown as it is
\* and schedules the fetch, and the dropdown of an instance with a supplier
\* is rendered only by a step in which a supplier call is fulfilled.
C32_RenderTiming ==
    [][/\ (event'.type = "keyup" /\ event'.active) =>
            LET i == event'.inst
            IN IF fetchSuggestions[i]
               THEN /\ dropdown' = dropdown
                    /\ suggestions' = suggestions
                    /\ \E t \in timers' : t.inst = i /\ t.latest /\ t.id = fetchTimeout'[i]
               ELSE /\ dropdown'[i] =
                          Rendered(i, Pipeline(middlewares[i], 1, suggestions[i]))
                    /\ suggestions'[i] = suggestions[i]
                    /\ timers' = {}
                    /\ fetchTimeout' = fetchTimeout
       /\ \A i \in TagIts :
             (/\ fetchSuggestions[i]
              /\ dropdown'[i] # dropdown[i]
              /\ dropdown'[i].display = "block") =>
                 event'.type = "resolve" /\ event'.inst = i]_vars

\* a keystroke on an instance with a supplier was evaluated active while the
\* dropdown showed the result of an earlier call: the dropdown is as it was
\* and a timer is pending
C32_Witness ==
    /\ event.type = "keyup" /\ event.active
    /\ fetchSuggestions[1]
    /\ dropdown[1] = [display |-> "block", items |-> <<1, 3>>]
    /\ TimersOf(1) # {}

\* ------------------------------------------------------ a click outside
\* C33: a click on a target outside every dropdown leaves every dropdown
\* hidden with the entries it had, and the candidate sets, middlewares,
\* surfaces, selection, timers, timer handles and supplier calls in flight as
\* they were; for a click on a target inside its own dropdown the listener
\* leaves the dropdown as it is.
C33_OutsideClickHidesOnly ==
    [][/\ event'.type = "outsideclick" =>
            /\ \A j \in TagIts :
                  dropdown'[j] = [display |-> "none", items |-> dropdown[j].items]
            /\ suggestions' = suggestions
            /\ middlewares' = middlewares
            /\ target' = target
            /\ selection' = selection
            /\ timers' = timers
            /\ fetchTimeout' = fetchTimeout
            /\ inflight' = inflight
            /\ matchScore' = matchScore
       /\ \A j \in TagIts : onOutsideClick(j, j, dropdown'[j]) = dropdown'[j]]_vars

\* a click outside found the dropdown shown while a timer was pending: the
\* dropdown is hidden and the timer is still pending
C33_Witness ==
    /\ event.type = "outsideclick"
    /\ event.shown = {1}
    /\ dropdown[1].display = "none"
    /\ TimersOf(1) # {}

\* ------------------------------------------------ whitespace of any kind
Whitespace == {SPACE, NBSP, "\n", "\t"}

\* C34: in a flat buffer of several lines, when the trigger character
\* directly follows a line break or a tab and no whitespace lies between it
\* and the caret, a keystroke evaluates the trigger active.
C34_ActiveAfterLineBreak ==
    [][event'.type = "keyup" =>
          LET i == event'.inst
              v == target[i].value
              s == target[i].selectionStart
              starts == {k \in 2..s : /\ v[k - 1] \in {"\n", "\t"}
                                      /\ OccursAt(v, triggerChar[i], k - 1)
                                      /\ \A j \in k..s : v[j] \notin Whitespace}
          IN starts # {} => event'.active]_vars

\* ------------------------------------- the dropdown and the last keystroke
\* On an instance with a supplier the timer handle tells what the last
\* keystroke evaluated: an active keystroke sets it, an inactive one clears
\* it and no other step writes it (HandleTracksEvaluation).
LastKeystrokeActive(i) == fetchTimeout[i] # 0

HandleTracksEvaluation ==
    [][IF event'.type = "keyup"
       THEN event'.active <=> fetchTimeout'[event'.inst] # 0
       ELSE fetchTimeout' = fetchTimeout]_vars

\* C35: whenever the dropdown of an instance is visible, the last keystroke
\* of the instance evaluated the trigger active.
C35_VisibleOnlyWhileActive ==
    \A i \in TagIts :
        (fetchSuggestions[i] /\ dropdown[i].display = "block") => LastKeystrokeActive(i)

\* ------------------------------------------------------- after destroy
\* C36: once destroy has run, no timer of the instance invokes the supplier
\* and no supplier completion replaces the candidate set or changes the
\* dropdown.
C36_NothingRunsAfterDestroy ==
    [][\A i \in TagIts :
          destroyed[i] =>
             /\ inflight'[i] <= inflight[i]
             /\ suggestions'[i] = suggestions[i]
             /\ dropdown'[i] = dropdown[i]]_vars

\* ------------------------------------------- exact matches and truncation
\* the key of o starts with q, letter case ignored
StartsIgnoringCase(o, q) ==
    /\ Len(q) <= Len(ItemKey(o))
    /\ \A j \in 1..Len(q) : LowerChar(ItemKey(o)[j]) = LowerChar(q[j])

\* a render for a non-empty query with maxSuggestions >= 1 and minScore <= 1
RendersTruncated ==
    /\ Renders
    /\ event'.query # <<>>
    /\ maxSuggestions[event'.inst] >= 1
    /\ NumLE(minScore[event'.inst], One)

\* C37 as stated: a candidate of the middleware output whose key equals the
\* query, letter case ignored, is among the entries the render displays.
C37_ExactMatchDisplayed ==
    [][RendersTruncated =>
          LET i == event'.inst
              out == Pipeline(middlewares[i], 1, suggestions[i])
          IN \A p \in 1..Len(out) :
                EqualIgnoringCase(ItemKey(out[p]), event'.query) =>
                   /\ dropdown'[i].display = "block"
                   /\ \E n \in 1..Len(dropdown'[i].items) :
                         dropdown'[i].items[n] = out[p]]_vars

\* C37 amended: the same for an exact match that fewer than maxSuggestions
\* candidates whose key starts with the query precede in the middleware
\* output.
C37_ExactMatchDisplayedUnlessPreceded ==
    [][RendersTruncated =>
          LET i == event'.inst
              out == Pipeline(middlewares[i], 1, suggestions[i])
          IN \A p \in 1..Len(out) :
                (/\ EqualIgnoringCase(ItemKey(out[p]), event'.query)
                 /\ Cardinality({j \in 1..(p - 1) :
                                    StartsIgnoringCase(out[j], event'.query)})
                       < maxSuggestions[i]) =>
                   /\ dropdown'[i].display = "block"
                   /\ \E n \in 1..Len(dropdown'[i].items) :
                         dropdown'[i].items[n] = out[p]]_vars

\* with maxSuggestions 1 the exact match was displayed although a candidate
\* that only holds the query and one that starts with it were in the
\* candidate set
C37_Witness ==
    /\ event.type = "keyup" /\ event.active
    /\ event.query = <<"x">>
    /\ maxSuggestions[1] = 1
    /\ suggestions[1] = <<1, 3, 2>>
    /\ dropdown[1] = [display |-> "block", items |-> <<3>>]

\* --------------------------------------- the query a completion ranks by
\* the dropdown a render leaves for instance i when list is ranked against q
RenderedFor(i, list, q) ==
    LET ranked == sortAndFilterSuggestions(list, toLowerCase(q), minScore[i],
                                           matchScore).result
        shown == FirstEntries(ranked, maxSuggestions[i])
    IN IF shown = <<>> THEN hideDropdown(dropdown[i])
       ELSE [display |-> "block", items |-> shown]

KeepsAll(out, ranked, q, shown, most) ==
    LET holding == {p \in 1..Len(out) : SubstringIgnoringCase(ItemKey(out[p]), q)}
    IN /\ \A o \in Objs : Count(ranked, o) = Count(out, o)
       /\ \A j, k \in 1..Len(ranked) :
             (j < k /\ SubstringIgnoringCase(ItemKey(ranked[k]), q)) =>
                 SubstringIgnoringCase(ItemKey(ranked[j]), q)
       /\ shown = FirstEntries(ranked, most)
       /\ (Cardinality(holding) < most /\ Cardinality(holding) < Len(out)) =>
             \E n \in 1..Len(shown) : ~SubstringIgnoringCase(ItemKey(shown[n]), q)

\* C39: a render for a non-empty query under minScore 0 ranks a permutation
\* of the middleware output in which no candidate whose key lacks the query
\* stands before one whose key holds it, and displays its first
\* maxSuggestions entries: when fewer than maxSuggestions candidates hold
\* the query and some candidate lacks it, a candidate that lacks it is shown.
C39_DefaultThresholdKeepsAll ==
    [][(/\ Renders
        /\ event'.query # <<>>
        /\ minScore[event'.inst] = Zero
        /\ maxSuggestions[event'.inst] >= 1
        /\ suggestions[event'.inst] # <<>>) =>
          LET i == event'.inst
          IN /\ dropdown'[i].display = "block"
             /\ KeepsAll(Pipeline(middlewares[i], 1, suggestions[i]),
                         Ranked(i, Pipeline(middlewares[i], 1, suggestions[i])),
                         getTriggerQuery(i, target, selection),
                         dropdown'[i].items, maxSuggestions[i])]_vars

\* the candidate "x" lacks the query "a" and is shown after "Ax", which
\* holds it and stood behind it in the candidate set
C39_Witness ==
    /\ event.type = "keyup" /\ event.active
    /\ event.query = <<"a">>
    /\ minScore[1] = Zero /\ maxSuggestions[1] = 2
    /\ suggestions[1] = <<3, 1>>
    /\ dropdown[1] = [display |-> "block", items |-> <<1, 3>>]

\* ------------------------------------------ from keystroke to the listing
\* the last step was a keystroke of instance 1 that evaluated the trigger
\* inactive
InactiveKeystroke == event.type = "keyup" /\ event.inst = 1 /\ ~event.active

\* the last step was the timer callback of instance 1 invoking the supplier
CallMade == event.type = "timer" /\ event.inst = 1 /\ inflight[1] > 0 /\ timers = {}

\* the last step fulfilled the promise of the supplier call made last, no
\* timer is pending
LastCallFulfilled ==
    /\ event.type = "resolve" /\ event.inst = 1
    /\ ~event.stale
    /\ overtaken[1] = inflight[1]
    /\ timers = {}

\* the ranked, truncated form of result for the current query
RankedTruncated(result) ==
    FirstEntries(Ranked(1, Pipeline(middlewares[1], 1, result)), maxSuggestions[1])

\* the candidate set is the result of the call made last and the dropdown
\* is visible showing its ranked, truncated form
Listing ==
    /\ LastCallFulfilled
    /\ suggestions[1] = event.result
    /\ dropdown[1] = [display |-> "block", items |-> RankedTruncated(event.result)]

\* a further keystroke, an edit or a click has occurred, a promise was
\* rejected, or the call made last was fulfilled with a result whose ranked,
\* truncated form is empty
Interrupted ==
    \/ event.type \in {"keyup", "edit", "outsideclick", "reject"}
    \/ LastCallFulfilled /\ RankedTruncated(event.result) = <<>>

\* C40: a timer that an active keystroke left pending leads to its callback
\* invoking the supplier, unless a keystroke that evaluates the trigger
\* inactive occurs; and the supplier invoked leads to the candidate set
\* being the result of that call and the dropdown being visible showing its
\* ranked, truncated form, unless a further keystroke, edit or click
\* occurs, a promise is rejected or that form is empty.
C40_KeystrokeLeadsToListing ==
    /\ (timers # {}) ~> (CallMade \/ InactiveKeystroke)
    /\ CallMade ~> (Listing \/ Interrupted)

\* the call of the last keystroke was fulfilled with <<1, 3>> while the
\* candidate set was <<1>>
C40_Witness ==
    /\ LastCallFulfilled
    /\ fetchTimeout[1] # 0
    /\ event.old = <<1>>
    /\ event.result = <<1, 3>>
    /\ suggestions[1] = <<1, 3>>
    /\ dropdown[1] = [display |-> "block", items |-> <<1, 3>>]

====
